---------------------------- MODULE Spec2Model ----------------------------
(***************************************************************************)
(* French-vocabulary deck builder: the pattern classifiers, the form       *)
(* resolver, the top-N selection and the ranking, modelled from the        *)
(* Python sources.                                                         *)
(*                                                                         *)
(* A Python str is a sequence of one-character strings, so that            *)
(* endswith, slicing, concatenation and len are computed and not assumed.  *)
(* A pandas NaN (a missing cell) is the value NaN below.                   *)
(***************************************************************************)
EXTENDS Integers, Sequences, FiniteSets, TLC

VARIABLES
    script,         \* which script of the repository this run executes
    adj_m,          \* 04c: row['form_m']
    adj_f,          \* 04c: row['form_f']
    adj_result,     \* 04c: what classify_adjective returned, Pending before
    verb_lemme,     \* 04d: row['lemme']
    verb_pp,        \* 04d: row['participe_present']
    verb_result,    \* 04d: what get_verb_group returned, Pending before
    group_lemme,    \* forms: the lemma of one (lemme, cgram) group of the lexicon
    group_cgram,    \* forms: its grammatical category, NaN when the cell is empty
    rows,           \* forms: the rows of the group, in file order
    forms_els,      \* forms: lemmas['forms'] of extract_lexique_selection.main
    forms_01,       \* forms: lemmas['forms'] of 01_extract_categories.main
    df,             \* selection: the rows of Lexique383, in file order
    result,         \* selection: result of 01_extract_categories.main, step 6
    select_pc,      \* selection: "start" before the selection, "done" after
    all_vocab,      \* ranking: the list to sort, in the order it was built
    shuffled,       \* ranking: the same entries as a second run receives them
    ranked,         \* ranking: the list after the sort of the first run
    reranked,       \* ranking: the list after the sort of the second run
    rank_pc,        \* ranking: "start", "ranked", "reranked"
    entries,        \* cards: the rows of the file the processor reads, in file order
    blacklist,      \* cards: load_blacklist(BLACKLIST_PATH)
    whitelist,      \* cards: load_whitelist_numerals(...), items in insertion order
    professions_f,  \* cards: load_professions_f(...)
    irregular,      \* cards: the irregular table the processor reads, items in insertion order
    vocab,          \* cards: the list the processor returns
    origin,         \* cards: for each record of vocab, the row it was made from
    cards_pc,       \* cards: "start", "done", or "ValueError" when float() raised
    noun_lemme,     \* format_noun: the argument lemme
    noun_genre,     \* format_noun: the argument genre
    noun_result,    \* format_noun: what it returned, Pending before
    columns,        \* entry points: df.columns, the columns of the lexicon file
    kinds,          \* entry points: the kinds of rows the lexicon holds, "word" and "verb"
    progress,       \* entry points: the steps main has run, in order
    col_pc,         \* entry points: "start", "return 0", "return 1", "return", "KeyError"
    files,          \* partition: the files main has written, file name -> rows
    skeleton,       \* levels: vocabulary_skeleton.csv, rows in file order
    batches,        \* levels: the French field of the rows of the batch files, concatenated
    level_files,    \* levels: the files save_level_files wrote, name -> French fields
    level_pc,       \* levels: "start", "done"
    verb_freq,      \* verb table: freqlem of the verb lemma, in hundredths
    irregular_csv,  \* verb table: the rows 04d wrote to irregular_verbs.csv
    card_group,     \* verb table: what classify_verb_group returned, Pending before
    table_pc,       \* verb table: "start", "written", "done"
    media_files,    \* deck: MediaCollector.files, anki_name -> source_path
    conflicts,      \* deck: MediaCollector.conflicts
    calls,          \* deck: the calls of add_file so far, with what each returned
    include_audio,  \* deck: the argument of build_deck
    pending,        \* deck: the rows build_deck has still to read, in its order
    on_disk,        \* deck: the audio files that exist
    deck_notes      \* deck: the notes added so far, with their two audio fields

adjVars  == <<adj_m, adj_f, adj_result>>
verbVars == <<verb_lemme, verb_pp, verb_result>>
formVars == <<group_lemme, group_cgram, rows, forms_els, forms_01>>
selVars  == <<df, result, select_pc>>
rankVars == <<all_vocab, shuffled, ranked, reranked, rank_pc>>
procVars == <<entries, blacklist, whitelist, professions_f, irregular, vocab, origin, cards_pc>>
nounVars == <<noun_lemme, noun_genre, noun_result>>
colVars  == <<columns, kinds, progress, col_pc>>
partVars == <<files>>
levelVars == <<skeleton, batches, level_files, level_pc>>
tableVars == <<verb_freq, irregular_csv, card_group, table_pc>>
mediaVars == <<media_files, conflicts, calls, include_audio, pending, on_disk, deck_notes>>
deckVars == <<tableVars, mediaVars>>
stageVars == <<colVars, partVars, levelVars, deckVars>>
cardVars == <<procVars, nounVars, stageVars>>
vars     == <<script, adjVars, verbVars, formVars, selVars, rankVars, cardVars>>

-----------------------------------------------------------------------------
(* Strings *)

NaN     == <<"<NaN>">>      \* pandas missing value; no str has this shape
Pending == <<"<pending>">>  \* a result not computed yet
None    == "<None>"         \* Python None returned by detect_pattern

isna(v) == v = NaN

EndsWith(s, suf) ==
    /\ Len(s) >= Len(suf)
    /\ SubSeq(s, Len(s) - Len(suf) + 1, Len(s)) = suf

\* s[:-n] for n >= 1
DropLast(s, n) == SubSeq(s, 1, Len(s) - n)

\* all str of length <= n over the characters cs
RECURSIVE StrUpTo(_, _)
StrUpTo(cs, n) ==
    IF n = 0 THEN {<<>>}
    ELSE LET shorter == StrUpTo(cs, n - 1)
         IN  shorter \cup {Append(s, c) : s \in shorter, c \in cs}

-----------------------------------------------------------------------------
(* 04c_find_irregular_adj.py *)

PATTERNS_NoEau == <<
    [m |-> <<"e","u","x">>,     f |-> <<"e","u","s","e">>,     name |-> "-eux → -euse"],
    [m |-> <<"i","f">>,         f |-> <<"i","v","e">>,         name |-> "-if → -ive"],
    [m |-> <<"e","r">>,         f |-> <<"è","r","e">>,         name |-> "-er → -ère"],
    [m |-> <<"e","u","r">>,     f |-> <<"e","u","s","e">>,     name |-> "-eur → -euse"],
    [m |-> <<"t","e","u","r">>, f |-> <<"t","r","i","c","e">>, name |-> "-teur → -trice"],
    [m |-> <<"e","t">>,         f |-> <<"è","t","e">>,         name |-> "-et → -ète"],
    [m |-> <<"f">>,             f |-> <<"v","e">>,             name |-> "-f → -ve"],
    [m |-> <<"c">>,             f |-> <<"c","h","e">>,         name |-> "-c → -che"],
    [m |-> <<"c">>,             f |-> <<"q","u","e">>,         name |-> "-c → -que"],
    [m |-> <<"g","u">>,         f |-> <<"g","u","ë">>,         name |-> "-gu → -guë"],
    [m |-> <<"g","u">>,         f |-> <<"g","u","e">>,         name |-> "-gu → -guë"],
    [m |-> <<"o","u">>,         f |-> <<"o","l","l","e">>,     name |-> "-ou → -olle"],
    [m |-> <<"i","n">>,         f |-> <<"i","g","n","e">>,     name |-> "-in → -igne"],
    [m |-> <<"x">>,             f |-> <<"s","e">>,             name |-> "-x → -se"],
    [m |-> <<"o","n","g">>,     f |-> <<"o","n","g","u","e">>, name |-> "-ong → -ongue"] >>

\* (suffix_m, suffix_f, pattern_name), in the order of the source list
PATTERNS == <<
    [m |-> <<"e","u","x">>,     f |-> <<"e","u","s","e">>,     name |-> "-eux → -euse"],
    [m |-> <<"i","f">>,         f |-> <<"i","v","e">>,         name |-> "-if → -ive"],
    [m |-> <<"e","r">>,         f |-> <<"è","r","e">>,         name |-> "-er → -ère"],
    [m |-> <<"e","u","r">>,     f |-> <<"e","u","s","e">>,     name |-> "-eur → -euse"],
    [m |-> <<"t","e","u","r">>, f |-> <<"t","r","i","c","e">>, name |-> "-teur → -trice"],
    [m |-> <<"e","t">>,         f |-> <<"è","t","e">>,         name |-> "-et → -ète"],
    [m |-> <<"f">>,             f |-> <<"v","e">>,             name |-> "-f → -ve"],
    [m |-> <<"e","a","u">>,     f |-> <<"e","l","l","e">>,     name |-> "-eau → -elle"],
    [m |-> <<"c">>,             f |-> <<"c","h","e">>,         name |-> "-c → -che"],
    [m |-> <<"c">>,             f |-> <<"q","u","e">>,         name |-> "-c → -que"],
    [m |-> <<"g","u">>,         f |-> <<"g","u","ë">>,         name |-> "-gu → -guë"],
    [m |-> <<"g","u">>,         f |-> <<"g","u","e">>,         name |-> "-gu → -guë"],
    [m |-> <<"o","u">>,         f |-> <<"o","l","l","e">>,     name |-> "-ou → -olle"],
    [m |-> <<"i","n">>,         f |-> <<"i","g","n","e">>,     name |-> "-in → -igne"],
    [m |-> <<"x">>,             f |-> <<"s","e">>,             name |-> "-x → -se"],
    [m |-> <<"o","n","g">>,     f |-> <<"o","n","g","u","e">>, name |-> "-ong → -ongue"] >>

\* 04b_check_professions.py: (m_suffix, f_suffix, pattern_name), in the order of
\* the source list
PROFESSION_PATTERNS == <<
    [m |-> <<"t","e","u","r">>, f |-> <<"t","r","i","c","e">>, name |-> "-teur → -trice"],
    [m |-> <<"e","u","r">>,     f |-> <<"e","u","s","e">>,     name |-> "-eur → -euse"],
    [m |-> <<"i","e","r">>,     f |-> <<"i","è","r","e">>,     name |-> "-ier → -ière"],
    [m |-> <<"i","e","n">>,     f |-> <<"i","e","n","n","e">>, name |-> "-ien → -ienne"],
    [m |-> <<"e","r">>,         f |-> <<"è","r","e">>,         name |-> "-er → -ère"],
    [m |-> <<"a","n","t">>,     f |-> <<"a","n","t","e">>,     name |-> "-ant → -ante"] >>

\* The for loop of detect_pattern from rule i on: the first rule whose
\* masculine suffix ends m and whose predicted feminine is f.
RECURSIVE detect_from(_, _, _)
detect_from(m, f, i) ==
    IF i > Len(PATTERNS) THEN None
    ELSE IF /\ EndsWith(m, PATTERNS[i].m)
            /\ f = DropLast(m, Len(PATTERNS[i].m)) \o PATTERNS[i].f
         THEN PATTERNS[i].name
         ELSE detect_from(m, f, i + 1)

\* Mutant: the first rule whose masculine suffix ends m, whatever f is.
RECURSIVE detect_by_suffix_only(_, _, _)
detect_by_suffix_only(m, f, i) ==
    IF i > Len(PATTERNS) THEN None
    ELSE IF EndsWith(m, PATTERNS[i].m)
         THEN PATTERNS[i].name
         ELSE detect_by_suffix_only(m, f, i + 1)

detect_pattern_unchecked(m, f) ==
    IF isna(m) \/ isna(f) THEN None ELSE detect_by_suffix_only(m, f, 1)

detect_pattern(m, f) ==
    IF isna(m) \/ isna(f) THEN None ELSE detect_from(m, f, 1)

\* Mutant: the suffix-rule table is consulted before the regular check.
classify_adjective_patterns_first(m, f) ==
    IF isna(m) \/ isna(f) THEN <<"unknown", "">>
    ELSE IF m = f THEN <<"invariable", "">>
    ELSE IF detect_pattern(m, f) # None THEN <<"patterned", detect_pattern(m, f)>>
    ELSE IF f = m \o <<"e">> THEN <<"regular", "">>
    ELSE IF Len(m) >= 1 /\ f = m \o <<m[Len(m)], "e">> THEN <<"doubled", "">>
    ELSE <<"unique", "unique">>

classify_adjective(m, f) ==
    IF isna(m) \/ isna(f) THEN <<"unknown", "">>
    ELSE IF m = f THEN <<"invariable", "">>
    ELSE IF f = m \o <<"e">> THEN <<"regular", "">>
    ELSE IF Len(m) >= 1 /\ f = m \o <<m[Len(m)], "e">> THEN <<"doubled", "">>
    ELSE IF detect_pattern(m, f) # None THEN <<"patterned", detect_pattern(m, f)>>
    ELSE <<"unique", "unique">>

(* Inputs of the adjective classifier *)

MaxStemLen == 2
AdjStemChars == {"a", "b", "c"}
AdjStems == StrUpTo(AdjStemChars, MaxStemLen)

MascSuffixes ==
    {PATTERNS[i].m : i \in DOMAIN PATTERNS}
        \cup {<<>>, <<"t">>, <<"n">>, <<"s">>, <<"e","a","u">>, <<"i","e","u","x">>}
FemSuffixes ==
    {PATTERNS[i].f : i \in DOMAIN PATTERNS}
        \cup {<<"e","l","l","e">>, <<"i","e","i","l","l","e">>, <<"e","u","r","e">>}

\* the feminine forms tried with the masculine stem \o msuf
FemFormsFor(stem, msuf) ==
    LET m == stem \o msuf
    IN  {NaN, m, m \o <<"e">>}
            \cup (IF Len(m) >= 1 THEN {m \o <<m[Len(m)], "e">>} ELSE {})
            \cup {stem \o fs : fs \in FemSuffixes}

beau    == <<"b","e","a","u">>
belle   == <<"b","e","l","l","e">>
teur    == <<"t","e","u","r">>
trice   == <<"t","r","i","c","e">>

InitAdj ==
    /\ script = "04c_find_irregular_adj"
    /\ \E stem \in AdjStems, msuf \in MascSuffixes :
          /\ adj_m \in {NaN, stem \o msuf}
          /\ adj_f \in FemFormsFor(stem, msuf)
    /\ adj_result = Pending

IdleAdj == adj_m = NaN /\ adj_f = NaN /\ adj_result = Pending

\* result.apply(classify_adjective, axis=1), one row
ClassifyAdjective ==
    /\ script = "04c_find_irregular_adj"
    /\ adj_result = Pending
    /\ adj_result' = classify_adjective(adj_m, adj_f)
    /\ UNCHANGED <<script, adj_m, adj_f, verbVars, formVars, selVars, rankVars, cardVars>>

-----------------------------------------------------------------------------
(* 04d_find_irregular_verbs.py *)

aller == <<"a","l","l","e","r">>
IRREGULAR_ER_VERBS == {aller}

issant == <<"i","s","s","a","n","t">>

\* Mutant: the -er test runs before the exception set is consulted.
get_verb_group_er_first(lemme, participe_present) ==
    IF EndsWith(lemme, <<"e","r">>) THEN <<1, "regular -er">>
    ELSE IF lemme \in IRREGULAR_ER_VERBS THEN <<3, "-er exception">>
    ELSE IF EndsWith(lemme, <<"i","r">>)
         THEN IF ~isna(participe_present) /\ EndsWith(participe_present, issant)
              THEN <<2, "regular -ir (-issant)">>
              ELSE <<3, "-ir sans -issant">>
    ELSE IF EndsWith(lemme, <<"r","e">>) THEN <<3, "-re">>
    ELSE IF EndsWith(lemme, <<"o","i","r">>) THEN <<3, "-oir">>
    ELSE <<3, "unknown">>

\* Mutant: any participle in -ant makes an -ir verb a group 2 verb.
get_verb_group_ant(lemme, participe_present) ==
    IF lemme \in IRREGULAR_ER_VERBS THEN <<3, "-er exception">>
    ELSE IF EndsWith(lemme, <<"e","r">>) THEN <<1, "regular -er">>
    ELSE IF EndsWith(lemme, <<"i","r">>)
         THEN IF ~isna(participe_present) /\ EndsWith(participe_present, <<"a","n","t">>)
              THEN <<2, "regular -ir (-issant)">>
              ELSE <<3, "-ir sans -issant">>
    ELSE IF EndsWith(lemme, <<"r","e">>) THEN <<3, "-re">>
    ELSE IF EndsWith(lemme, <<"o","i","r">>) THEN <<3, "-oir">>
    ELSE <<3, "unknown">>

get_verb_group(lemme, participe_present) ==
    IF lemme \in IRREGULAR_ER_VERBS THEN <<3, "-er exception">>
    ELSE IF EndsWith(lemme, <<"e","r">>) THEN <<1, "regular -er">>
    ELSE IF EndsWith(lemme, <<"i","r">>)
         THEN IF ~isna(participe_present) /\ EndsWith(participe_present, issant)
              THEN <<2, "regular -ir (-issant)">>
              ELSE <<3, "-ir sans -issant">>
    ELSE IF EndsWith(lemme, <<"r","e">>) THEN <<3, "-re">>
    ELSE IF EndsWith(lemme, <<"o","i","r">>) THEN <<3, "-oir">>
    ELSE <<3, "unknown">>

(* Inputs of the verb classifier *)

MaxVerbStemLen == 3
VerbStemChars == {"a", "l"}
VerbStems == StrUpTo(VerbStemChars, MaxVerbStemLen)
VerbEndings == {<<"e","r">>, <<"i","r">>, <<"r","e">>, <<"o","i","r">>, <<"e","t">>, <<>>}
ParticipleEndings == {issant, <<"a","n","t">>, <<"s","a","n","t">>, <<"i","s","s","a","n","t","e">>}

InitVerb ==
    /\ script = "04d_find_irregular_verbs"
    /\ \E stem \in VerbStems :
          /\ verb_lemme \in {stem \o e : e \in VerbEndings}
          /\ verb_pp \in {NaN} \cup {stem \o e : e \in ParticipleEndings}
    /\ verb_result = Pending

IdleVerb == verb_lemme = NaN /\ verb_pp = NaN /\ verb_result = Pending

\* result.apply(classify, axis=1), one row
ClassifyVerb ==
    /\ script = "04d_find_irregular_verbs"
    /\ verb_result = Pending
    /\ verb_result' = get_verb_group(verb_lemme, verb_pp)
    /\ UNCHANGED <<script, verb_lemme, verb_pp, adjVars, formVars, selVars, rankVars, cardVars>>

-----------------------------------------------------------------------------
(* Form resolution: extract_lexique_selection.py and 01_extract_categories.py *)

\* values of the genre, nombre and cgram cells; '' is the empty str
g_m == <<"m">>
g_f == <<"f">>
n_s == <<"s">>
n_p == <<"p">>
empty == <<>>
NOM == <<"NOM">>
VER == <<"VER">>
AUX == <<"AUX">>

\* row[col] if pd.notna(row[col]) else ''
or_empty(v) == IF isna(v) THEN empty ELSE v

\* the key (genre, nombre) under which a row is filed
key_of(row) == <<or_empty(row.genre), or_empty(row.nombre)>>

Cells == {<<g, n>> : g \in {g_m, g_f, empty}, n \in {n_s, n_p, empty}}

\* sub in s, for two str
Contains(s, sub) ==
    \E i \in 1..(Len(s) - Len(sub) + 1) : SubSeq(s, i, i + Len(sub) - 1) = sub

\* sep.join(parts)
RECURSIVE Join(_, _)
Join(parts, sep) ==
    IF Len(parts) = 0 THEN <<>>
    ELSE IF Len(parts) = 1 THEN parts[1]
    ELSE parts[1] \o sep \o Join(Tail(parts), sep)

comma == <<",", " ">>
slash == <<"/">>
space == <<" ">>

\* The orders in which iterating a Python set of str may yield its
\* elements: the order depends on the hash seed of the run.
Perms(S) ==
    {p \in [1..Cardinality(S) -> S] : \A i, j \in DOMAIN p : i # j => p[i] # p[j]}

\* One iteration order for the set of every cell of forms_by_gn.
RECURSIVE IterOrdersOver(_, _)
IterOrdersOver(fbg, cells) ==
    IF cells = {} THEN {[c \in {} |-> <<>>]}
    ELSE LET c == CHOOSE x \in cells : TRUE
         IN  {[x \in cells |-> IF x = c THEN p ELSE r[x]] :
                 p \in Perms(fbg[c]), r \in IterOrdersOver(fbg, cells \ {c})}

IterOrders(fbg) == IterOrdersOver(fbg, Cells)

NoCell == <<"<no cell>">>

\* first(s) for the set s stored under `cell`: next(iter(s)) if s else ''
first(ord, cell) ==
    IF cell = NoCell \/ ord[cell] = <<>> THEN empty ELSE ord[cell][1]

\* len(forms_by_gn): the keys present
NumKeys(fbg) == Cardinality({c \in Cells : fbg[c] # {}})

\* Mutant: no fallback to the lemma when every slot is empty.
compose_display_no_fallback(lem, ms_form, fs_form, mp_form, fp_form) ==
    LET all_forms == {ms_form, fs_form, mp_form, fp_form} \ {empty}
    IN  IF all_forms = {} THEN {empty}
        ELSE IF Cardinality(all_forms) = 1 THEN all_forms
        ELSE IF fs_form # empty /\ ms_form # empty /\ fs_form # ms_form
             THEN {ms_form \o slash \o fs_form}
        ELSE {(IF ms_form # empty THEN ms_form ELSE fs_form) \o comma
                 \o (IF mp_form # empty THEN mp_form ELSE fp_form)}

\* The end of both _format_forms, from all_forms on: the display strings
\* it may return for the four slot forms ('' for an empty slot). Only
\* first(all_forms) on a set of several forms has more than one outcome.
compose_display(lem, ms_form, fs_form, mp_form, fp_form) ==
    LET all_forms == {ms_form, fs_form, mp_form, fp_form} \ {empty}
        has_gender_diff == fs_form # empty /\ ms_form # empty /\ fs_form # ms_form
        has_number_diff ==
            \/ mp_form # empty /\ ms_form # empty /\ mp_form # ms_form
            \/ fp_form # empty /\ fs_form # empty /\ fp_form # fs_form
        sg4 == IF ms_form # empty /\ fs_form # empty
               THEN ms_form \o slash \o fs_form
               ELSE IF ms_form # empty THEN ms_form ELSE fs_form
        pl4 == IF mp_form # empty /\ fp_form # empty
               THEN mp_form \o slash \o fp_form
               ELSE IF mp_form # empty THEN mp_form ELSE fp_form
        sg2 == IF ms_form # empty THEN ms_form ELSE fs_form
        pl2 == IF mp_form # empty THEN mp_form ELSE fp_form
    IN  IF all_forms = {} THEN {lem}
        ELSE IF Cardinality(all_forms) = 1 THEN all_forms
        ELSE IF has_gender_diff /\ has_number_diff
             THEN {IF pl4 # empty THEN sg4 \o space \o pl4 ELSE sg4}
        ELSE IF has_gender_diff THEN {ms_form \o slash \o fs_form}
        ELSE IF has_number_diff THEN {sg2 \o comma \o pl2}
        ELSE all_forms

(* extract_lexique_selection.get_word_forms *)

Range(f) == {f[i] : i \in DOMAIN f}

\* the keys of a dict filled in the order of seq, in insertion order
RECURSIVE InsertionOrder(_)
InsertionOrder(seq) ==
    IF seq = <<>> THEN <<>>
    ELSE LET front == InsertionOrder(SubSeq(seq, 1, Len(seq) - 1))
             last  == seq[Len(seq)]
         IN  IF last \in Range(front) THEN front ELSE Append(front, last)

rows_under(rs, key) == SelectSeq(rs, LAMBDA r : key_of(r) = key)

\* forms_by_gn[key] after the loop over the rows: its orthos in insertion
\* order, and the frequency kept for each (the maximum over its rows)
ortho_order(rs, key) ==
    LET under == rows_under(rs, key)
    IN  InsertionOrder([i \in DOMAIN under |-> under[i].ortho])

ortho_freq(rs, key, o) ==
    LET fs == {r.freq : r \in {x \in Range(rows_under(rs, key)) : x.ortho = o}}
    IN  CHOOSE f \in fs : \A g \in fs : f >= g

\* the sort key (len(x), not x.endswith('s')) of a is greater than that of b
key_greater(a, b) ==
    \/ Len(a) > Len(b)
    \/ Len(a) = Len(b) /\ ~EndsWith(a, <<"s">>) /\ EndsWith(b, <<"s">>)

\* max(top_forms, key=...): the first element no other element beats
first_max(top_forms) ==
    LET best == {i \in DOMAIN top_forms :
                    /\ \A j \in DOMAIN top_forms : ~key_greater(top_forms[j], top_forms[i])
                    /\ \A j \in 1..(i - 1) : key_greater(top_forms[i], top_forms[j])}
    IN  top_forms[CHOOSE i \in best : TRUE]

\* forms_by_gn_sets[key]; {} when the key is absent
cell_set_els(rs, key) ==
    LET order    == ortho_order(rs, key)
        max_freq == CHOOSE f \in {ortho_freq(rs, key, o) : o \in Range(order)} :
                        \A o \in Range(order) : f >= ortho_freq(rs, key, o)
        \* f >= max_freq * 0.9
        top_forms == SelectSeq(order, LAMBDA o : 10 * ortho_freq(rs, key, o) >= 9 * max_freq)
    IN  IF Len(order) = 0 THEN {}
        ELSE IF Len(order) = 1 THEN Range(order)
        ELSE IF key[2] = empty THEN Range(order)
        ELSE IF Len(top_forms) = 1 THEN {top_forms[1]}
        ELSE {first_max(top_forms)}

get_word_forms_sets(rs) == [c \in Cells |-> cell_set_els(rs, c)]

(* extract_lexique_selection._format_forms *)

\* sorted(forms, key=len) on the iteration order seq: a stable sort
RECURSIVE sorted_by_len(_)
sorted_by_len(seq) ==
    IF seq = <<>> THEN <<>>
    ELSE LET front == sorted_by_len(SubSeq(seq, 1, Len(seq) - 1))
             x     == seq[Len(seq)]
             k     == Cardinality({i \in DOMAIN front : Len(front[i]) <= Len(x)})
         IN  SubSeq(front, 1, k) \o <<x>> \o SubSeq(front, k + 1, Len(front))

\* Mutant: the masculine rows without number come before the singular
\* rows without gender.
ms_slot_els_number_first(fbg) ==
    IF fbg[<<g_m, n_s>>] # {} THEN <<g_m, n_s>>
    ELSE IF fbg[<<g_m, empty>>] # {} THEN <<g_m, empty>>
    ELSE IF fbg[<<empty, n_s>>] # {} THEN <<empty, n_s>>
    ELSE IF fbg[<<empty, empty>>] # {} THEN <<empty, empty>>
    ELSE NoCell

\* the cell whose set fills each slot, NoCell for an empty slot
ms_slot_els(fbg) ==
    IF fbg[<<g_m, n_s>>] # {} THEN <<g_m, n_s>>
    ELSE IF fbg[<<empty, n_s>>] # {} THEN <<empty, n_s>>
    ELSE IF fbg[<<g_m, empty>>] # {} THEN <<g_m, empty>>
    ELSE IF fbg[<<empty, empty>>] # {} THEN <<empty, empty>>
    ELSE NoCell

fs_slot_els(fbg) ==
    IF fbg[<<g_f, n_s>>] # {} THEN <<g_f, n_s>> ELSE NoCell

mp_slot_els(fbg) ==
    IF fbg[<<g_m, n_p>>] # {} THEN <<g_m, n_p>>
    ELSE IF fbg[<<g_m, empty>>] # {} THEN <<g_m, empty>>
    ELSE IF /\ fbg[<<empty, n_p>>] # {}
            /\ \/ ms_slot_els(fbg) # NoCell
               \/ fbg[<<g_m, n_s>>] # {}
               \/ fbg[<<empty, n_s>>] # {}
         THEN <<empty, n_p>>
    ELSE IF fbg[<<g_f, n_p>>] # {} /\ fs_slot_els(fbg) = NoCell THEN <<g_f, n_p>>
    ELSE NoCell

fp_slot_els(fbg) ==
    IF fbg[<<g_f, n_p>>] # {} THEN <<g_f, n_p>>
    ELSE IF fs_slot_els(fbg) = NoCell THEN NoCell
    ELSE IF fbg[<<empty, n_p>>] # {} /\ mp_slot_els(fbg) = NoCell THEN <<empty, n_p>>
    ELSE IF mp_slot_els(fbg) # NoCell /\ ms_slot_els(fbg) = NoCell THEN mp_slot_els(fbg)
    ELSE NoCell

\* the display strings _format_forms may return when the sets of
\* forms_by_gn iterate in the orders ord
format_forms_els(lem, fbg, ord) ==
    LET several == {k \in {<<g_m, empty>>, <<g_f, empty>>, <<empty, empty>>} :
                       Cardinality(fbg[k]) > 1 /\ NumKeys(fbg) = 1}
    IN  IF several # {}
        THEN {Join(sorted_by_len(ord[CHOOSE k \in several : TRUE]), comma)}
        ELSE IF fbg[<<empty, empty>>] # {} /\ fbg[<<empty, n_p>>] # {} /\ NumKeys(fbg) = 2
        THEN {first(ord, <<empty, empty>>) \o comma \o first(ord, <<empty, n_p>>)}
        ELSE IF fbg[<<empty, n_s>>] # {} /\ fbg[<<empty, n_p>>] # {} /\ NumKeys(fbg) = 2
        THEN {first(ord, <<empty, n_s>>) \o comma \o first(ord, <<empty, n_p>>)}
        ELSE compose_display(lem,
                             first(ord, ms_slot_els(fbg)), first(ord, fs_slot_els(fbg)),
                             first(ord, mp_slot_els(fbg)), first(ord, fp_slot_els(fbg)))

(* 01_extract_categories.get_word_forms and _format_forms *)

get_word_forms_01(rs) ==
    [c \in Cells |-> {r.ortho : r \in {x \in Range(rs) : key_of(x) = c}}]

ms_slot_01(fbg) ==
    LET ms == IF fbg[<<g_m, n_s>>] # {} THEN <<g_m, n_s>>
              ELSE IF fbg[<<empty, n_s>>] # {} THEN <<empty, n_s>> ELSE NoCell
        mp == IF fbg[<<g_m, n_p>>] # {} THEN <<g_m, n_p>>
              ELSE IF fbg[<<empty, n_p>>] # {} THEN <<empty, n_p>> ELSE NoCell
    IN  IF ms = NoCell /\ mp = NoCell
        THEN IF fbg[<<g_m, empty>>] # {} THEN <<g_m, empty>>
             ELSE IF fbg[<<empty, empty>>] # {} THEN <<empty, empty>> ELSE NoCell
        ELSE ms

mp_slot_01(fbg) ==
    IF fbg[<<g_m, n_p>>] # {} THEN <<g_m, n_p>>
    ELSE IF fbg[<<empty, n_p>>] # {} THEN <<empty, n_p>> ELSE NoCell

fp_slot_01(fbg) ==
    IF fbg[<<g_f, n_p>>] # {} THEN <<g_f, n_p>> ELSE NoCell

fs_slot_01(fbg) ==
    IF fbg[<<g_f, n_s>>] # {} THEN <<g_f, n_s>>
    ELSE IF fp_slot_01(fbg) = NoCell /\ fbg[<<g_f, empty>>] # {} THEN <<g_f, empty>>
    ELSE NoCell

format_forms_01(lem, fbg, ord) ==
    compose_display(lem,
                    first(ord, ms_slot_01(fbg)), first(ord, fs_slot_01(fbg)),
                    first(ord, mp_slot_01(fbg)), first(ord, fp_slot_01(fbg)))

(* extract_lexique_selection.get_verb_forms and _format_verb_forms *)

t_inf     == <<"i","n","f">>
t_par_pas == <<"p","a","r",":","p","a","s">>
t_par_pre == <<"p","a","r",":","p","r","e">>

no_forms == [inf |-> empty, par_pas_ms |-> empty, par_pas_fs |-> empty, par_pre |-> empty]

\* Mutant: every infinitive row replaces the infinitive kept so far.
verb_row_step_last_inf(lem, forms, row) ==
    LET infover == or_empty(row.infover)
        ortho   == row.ortho
        genre   == or_empty(row.genre)
        nombre  == or_empty(row.nombre)
    IN  IF Contains(infover, t_inf)
        THEN [forms EXCEPT !.inf = ortho]
        ELSE IF Contains(infover, t_par_pas)
        THEN IF genre = g_m /\ nombre \in {n_s, empty}
             THEN [forms EXCEPT !.par_pas_ms = ortho]
             ELSE IF genre = g_f /\ nombre = n_s
             THEN [forms EXCEPT !.par_pas_fs = ortho]
             ELSE forms
        ELSE IF Contains(infover, t_par_pre)
        THEN [forms EXCEPT !.par_pre = ortho]
        ELSE forms

\* one pass of the loop over group.iterrows()
verb_row_step(lem, forms, row) ==
    LET infover == or_empty(row.infover)
        ortho   == row.ortho
        genre   == or_empty(row.genre)
        nombre  == or_empty(row.nombre)
    IN  IF Contains(infover, t_inf)
        THEN IF ortho = lem \/ forms.inf = empty
             THEN [forms EXCEPT !.inf = ortho] ELSE forms
        ELSE IF Contains(infover, t_par_pas)
        THEN IF genre = g_m /\ nombre \in {n_s, empty}
             THEN [forms EXCEPT !.par_pas_ms = ortho]
             ELSE IF genre = g_f /\ nombre = n_s
             THEN [forms EXCEPT !.par_pas_fs = ortho]
             ELSE forms
        ELSE IF Contains(infover, t_par_pre)
        THEN [forms EXCEPT !.par_pre = ortho]
        ELSE forms

RECURSIVE collect_verb_forms(_, _)
collect_verb_forms(lem, rs) ==
    IF rs = <<>> THEN no_forms
    ELSE verb_row_step(lem, collect_verb_forms(lem, SubSeq(rs, 1, Len(rs) - 1)), rs[Len(rs)])

format_verb_forms(lem, forms) ==
    LET inf   == IF forms.inf # empty THEN forms.inf ELSE lem
        parts == IF forms.par_pas_ms = empty THEN <<inf>>
                 ELSE IF forms.par_pas_fs # empty /\ forms.par_pas_fs # forms.par_pas_ms
                 THEN <<inf, forms.par_pas_ms \o slash \o forms.par_pas_fs>>
                 ELSE <<inf, forms.par_pas_ms>>
    IN  IF forms.par_pre # empty
        THEN Join(parts, comma) \o <<" ", "(">> \o forms.par_pre \o <<")">>
        ELSE Join(parts, comma)

get_verb_forms(lem, rs) == format_verb_forms(lem, collect_verb_forms(lem, rs))

(* The lemma row of main: lemmas['forms'] *)

\* extract_lexique_selection.main: forms_dict.get((lemme, cgram), lemme),
\* forms_dict = {**word_forms, **verb_forms}; groupby drops a NaN cgram
attach_forms_els(lem, cg, rs) ==
    IF isna(cg) THEN {lem}
    ELSE IF cg \in {VER, AUX} THEN {get_verb_forms(lem, rs)}
    ELSE LET fbg == get_word_forms_sets(rs)
         IN  UNION {format_forms_els(lem, fbg, ord) : ord \in IterOrders(fbg)}

\* 01_extract_categories.main: forms_dict.get((lemme, cgram), lemme)
attach_forms_01(lem, cg, rs) ==
    IF isna(cg) THEN {lem}
    ELSE LET fbg == get_word_forms_01(rs)
         IN  UNION {format_forms_01(lem, fbg, ord) : ord \in IterOrders(fbg)}

(* Inputs of the form resolver: one (lemme, cgram) group of the lexicon *)

MaxRows == 2
Forms  == {<<"a">>, <<"a","s">>, <<"a","x">>}
Lemmas == {<<"a">>}
Freqs  == {9, 10}

\* rows of a noun or adjective group: freq is the form-level frequency
\* (freqfilms2 or 0) + (freqlivres or 0) of the row
WordRows(freqs) ==
    [ortho : Forms, genre : {g_m, g_f, NaN}, nombre : {n_s, n_p, NaN},
     freq : freqs, infover : {NaN}]

\* rows of a verb group: genre and nombre are filled on participle rows only
VerbRows ==
    [ortho : Forms, genre : {NaN}, nombre : {NaN}, freq : {10},
     infover : {t_inf \o <<";">>, t_par_pre \o <<";">>}]
    \cup
    [ortho : {<<"a">>}, genre : {NaN}, nombre : {NaN}, freq : {10},
     infover : {NaN, <<"i","n","d",":","p","r","e",":","3","s",";">>}]
    \cup
    {r \in [ortho : Forms, genre : {g_m, g_f}, nombre : {n_s, n_p, NaN}, freq : {10},
            infover : {t_par_pas \o <<";">>}] :
        ~(r.genre = g_f /\ isna(r.nombre))}

RowSeqs(R, n) == UNION {[1..k -> R] : k \in 1..n}

\* the group read by extract_lexique_selection.py
InitFormsELS ==
    /\ script = "extract_lexique_selection"
    /\ group_lemme \in Lemmas
    /\ \/ group_cgram = NOM /\ rows \in RowSeqs(WordRows(Freqs), MaxRows)
       \/ group_cgram = VER /\ rows \in RowSeqs(VerbRows, MaxRows)
       \/ group_cgram = NaN /\ rows \in RowSeqs(WordRows({10}), 1)
    /\ forms_els = Pending
    /\ forms_01 = Pending

\* the group read by 01_extract_categories.py, which reads no form frequency
InitForms01 ==
    /\ script = "01_extract_categories"
    /\ group_lemme \in Lemmas
    /\ \/ group_cgram = NOM /\ rows \in RowSeqs(WordRows({10}), MaxRows)
       \/ group_cgram = NaN /\ rows \in RowSeqs(WordRows({10}), 1)
    /\ forms_els = Pending
    /\ forms_01 = Pending

IdleForms ==
    /\ group_lemme = NaN /\ group_cgram = NaN /\ rows = <<>>
    /\ forms_els = Pending /\ forms_01 = Pending

\* extract_lexique_selection.main, steps up to lemmas['forms']
AttachFormsELS ==
    /\ script = "extract_lexique_selection"
    /\ forms_els = Pending
    /\ forms_els' \in attach_forms_els(group_lemme, group_cgram, rows)
    /\ UNCHANGED <<script, group_lemme, group_cgram, rows, forms_01, adjVars, verbVars,
                   selVars, rankVars, cardVars>>

\* 01_extract_categories.main, steps up to lemmas['forms']
AttachForms01 ==
    /\ script = "01_extract_categories"
    /\ forms_01 = Pending
    /\ forms_01' \in attach_forms_01(group_lemme, group_cgram, rows)
    /\ UNCHANGED <<script, group_lemme, group_cgram, rows, forms_els, adjVars, verbVars,
                   selVars, rankVars, cardVars>>

-----------------------------------------------------------------------------
(* Selection: 01_extract_categories.main, steps 1 to 6 *)

ADJ == <<"ADJ">>
ADV == <<"ADV">>
PRE == <<"PRE">>

FREQ_FILTERED_CATEGORIES == {VER, NOM, ADJ, ADV}

\* the weights 0.6 and 0.4, in tenths: freqlem is kept in tenths as well
FREQ_FILMS_WEIGHT == 6
FREQ_BOOKS_WEIGHT == 4

\* 10000 in config.py; the model selects among a handful of rows
TOP_N_PER_CATEGORY == 2

\* A cell of a count column is <<n>>, or <<>> where the file has nothing
\* and pandas reads NaN.
\* Series.fillna(0), one cell
fillna0(v) == IF v = <<>> THEN 0 ELSE v[1]

calculate_weighted_frequency(row) ==
    FREQ_FILMS_WEIGHT * fillna0(row.freqlemfilms2)
        + FREQ_BOOKS_WEIGHT * fillna0(row.freqlemlivres)

\* df[df['islem'] == 1] with the freqlem column added
with_freqlem(row) ==
    [lemme |-> row.lemme, cgram |-> row.cgram,
     freqlem |-> calculate_weighted_frequency(row)]

RECURSIVE map_freqlem(_)
map_freqlem(seq) ==
    IF seq = <<>> THEN <<>>
    ELSE <<with_freqlem(Head(seq))>> \o map_freqlem(Tail(seq))

lemmas_of(frame) == map_freqlem(SelectSeq(frame, LAMBDA r : r.islem = 1))

\* the position of the first row that has the largest freqlem
first_largest(seq) ==
    CHOOSE i \in DOMAIN seq :
        /\ \A j \in DOMAIN seq : seq[j].freqlem <= seq[i].freqlem
        /\ \A j \in 1..(i - 1) : seq[j].freqlem < seq[i].freqlem

without(seq, i) == SubSeq(seq, 1, i - 1) \o SubSeq(seq, i + 1, Len(seq))

\* Mutant: the top-N cut left out.
RECURSIVE nlargest_uncut(_, _)
nlargest_uncut(n, seq) ==
    IF seq = <<>> THEN <<>>
    ELSE LET i == first_largest(seq)
         IN  <<seq[i]>> \o nlargest_uncut(n, without(seq, i))

\* DataFrame.nlargest(n, 'freqlem'), keep='first'
RECURSIVE nlargest(_, _)
nlargest(n, seq) ==
    IF n = 0 \/ seq = <<>> THEN <<>>
    ELSE LET i == first_largest(seq)
         IN  <<seq[i]>> \o nlargest(n - 1, without(seq, i))

\* Series.isin: NaN is in no list of categories
isin(cg, cats) == ~isna(cg) /\ cg \in cats

select_categories(frame) ==
    LET lemmas        == lemmas_of(frame)
        freq_filtered == SelectSeq(lemmas, LAMBDA r : isin(r.cgram, FREQ_FILTERED_CATEGORIES))
        other         == SelectSeq(lemmas, LAMBDA r : ~isin(r.cgram, FREQ_FILTERED_CATEGORIES))
        top           == nlargest(TOP_N_PER_CATEGORY, freq_filtered)
        other_notna   == SelectSeq(other, LAMBDA r : ~isna(r.cgram))
    IN  top \o other_notna

MaxDfRows == 4

\* row i of the file is about the lemma LemmeNames[i]
LemmeNames == <<<<"a">>, <<"b">>, <<"c">>, <<"d">>, <<"e">>>>

Counts == {<< <<>>, <<>> >>, << <<1>>, <<>> >>, << <<>>, <<1>> >>}

\* the rows of the file, lemme aside: lemma rows, and a row of an
\* inflected form
DfRows ==
    {[cgram |-> cg, islem |-> 1, freqlemfilms2 |-> c[1], freqlemlivres |-> c[2]] :
        cg \in {NOM, VER, PRE, NaN}, c \in Counts}
    \cup {[cgram |-> NOM, islem |-> 0, freqlemfilms2 |-> <<1>>, freqlemlivres |-> <<1>>]}

named(r, i) ==
    [lemme |-> LemmeNames[i], cgram |-> r.cgram, islem |-> r.islem,
     freqlemfilms2 |-> r.freqlemfilms2, freqlemlivres |-> r.freqlemlivres]

InitSelect ==
    /\ script = "01_extract_categories.select"
    /\ \E k \in 1..MaxDfRows : \E f \in [1..k -> DfRows] :
          df = [i \in 1..k |-> named(f[i], i)]
    /\ result = <<>>
    /\ select_pc = "start"

IdleSelect == df = <<>> /\ result = <<>> /\ select_pc = "idle"

\* 01_extract_categories.main, from the lemma filter to the merge
SelectCategories ==
    /\ script = "01_extract_categories.select"
    /\ select_pc = "start"
    /\ result' = select_categories(df)
    /\ select_pc' = "done"
    /\ UNCHANGED <<script, df, adjVars, verbVars, formVars, rankVars, cardVars>>

-----------------------------------------------------------------------------
(* Ranking: the sorts of 05_generate_cards.main and of 01_extract_categories.main *)

\* ord() of the characters the model spells with
ord(c) == CASE c = "A" -> 65 [] c = "a" -> 97 [] c = "b" -> 98

lower_char(c) == IF c = "A" THEN "a" ELSE c

\* str.lower()
lower(s) == [i \in DOMAIN s |-> lower_char(s[i])]

\* s < t for two str
RECURSIVE str_less(_, _)
str_less(s, t) ==
    IF t = <<>> THEN FALSE
    ELSE IF s = <<>> THEN TRUE
    ELSE IF ord(Head(s)) # ord(Head(t)) THEN ord(Head(s)) < ord(Head(t))
    ELSE str_less(Tail(s), Tail(t))

\* key(x) < key(y) for key = (-x.freqlem, x.french.lower())
vocab_key_less(x, y) ==
    \/ -(x.freqlem) < -(y.freqlem)
    \/ x.freqlem = y.freqlem /\ str_less(lower(x.french), lower(y.french))


\* x goes behind every element whose key is not greater: the sort is stable
RECURSIVE insert_stable(_, _)
insert_stable(sorted, x) ==
    IF sorted = <<>> THEN <<x>>
    ELSE IF vocab_key_less(x, Head(sorted)) THEN <<x>> \o sorted
    ELSE <<Head(sorted)>> \o insert_stable(Tail(sorted), x)

\* list.sort(key=lambda x: (-x.freqlem, x.french.lower()))
RECURSIVE sort_vocab(_)
sort_vocab(seq) ==
    IF seq = <<>> THEN <<>>
    ELSE insert_stable(sort_vocab(SubSeq(seq, 1, Len(seq) - 1)), seq[Len(seq)])

SeqPerms(seq) ==
    {[i \in DOMAIN seq |-> seq[p[i]]] : p \in Perms(DOMAIN seq)}

Descending(seq) ==
    \A i \in 1..(Len(seq) - 1) : seq[i].freqlem >= seq[i + 1].freqlem

\* DataFrame.sort_values('freqlem', ascending=False): the default kind is
\* quicksort, which promises no order among equal freqlem, so every
\* descending arrangement is a possible outcome
sort_values(seq) == {q \in SeqPerms(seq) : Descending(q)}

MaxEntries == 2

\* VocabEntry, the fields the sort and the comparison of records read
VocabEntries ==
    [french : {<<"a">>, <<"A">>, <<"b">>}, wordtype : {"adj", "adv"}, freqlem : {0, 5}]

\* a row of a category file: forms is its display string
CategoryRows ==
    [french : {<<"a">>, <<"b">>}, wordtype : {"ADJ"}, freqlem : {0, 5}]

InitRank ==
    /\ \/ /\ script = "05_generate_cards"
          /\ all_vocab \in UNION {[1..k -> VocabEntries] : k \in 0..MaxEntries}
       \/ /\ script = "01_extract_categories.save"
          /\ all_vocab \in UNION {[1..k -> CategoryRows] : k \in 0..MaxEntries}
    /\ shuffled \in SeqPerms(all_vocab)
    /\ ranked = <<>>
    /\ reranked = <<>>
    /\ rank_pc = "start"

IdleRank ==
    /\ all_vocab = <<>> /\ shuffled = <<>> /\ ranked = <<>> /\ reranked = <<>>
    /\ rank_pc = "idle"

\* 05_generate_cards.main: all_vocab.sort(...)
SortVocab ==
    /\ script = "05_generate_cards"
    /\ rank_pc = "start"
    /\ ranked' = sort_vocab(all_vocab)
    /\ rank_pc' = "ranked"
    /\ UNCHANGED <<script, all_vocab, shuffled, reranked, adjVars, verbVars, formVars, selVars, cardVars>>

\* the same sort in a second run, which got the entries in another order
SortVocabAgain ==
    /\ script = "05_generate_cards"
    /\ rank_pc = "ranked"
    /\ reranked' = sort_vocab(shuffled)
    /\ rank_pc' = "reranked"
    /\ UNCHANGED <<script, all_vocab, shuffled, ranked, adjVars, verbVars, formVars, selVars, cardVars>>

\* 01_extract_categories.main, step 9: cat_data.sort_values(...)
SortCategory ==
    /\ script = "01_extract_categories.save"
    /\ rank_pc = "start"
    /\ ranked' \in sort_values(all_vocab)
    /\ rank_pc' = "ranked"
    /\ UNCHANGED <<script, all_vocab, shuffled, reranked, adjVars, verbVars, formVars, selVars, cardVars>>

\* the same sort in a second run, which got the rows in another order
SortCategoryAgain ==
    /\ script = "01_extract_categories.save"
    /\ rank_pc = "ranked"
    /\ reranked' \in sort_values(shuffled)
    /\ rank_pc' = "reranked"
    /\ UNCHANGED <<script, all_vocab, shuffled, ranked, adjVars, verbVars, formVars, selVars, cardVars>>

-----------------------------------------------------------------------------
(* Card assembly: 05_generate_cards.py, the formatters *)

RECURSIVE lstrip(_)
lstrip(s) == IF s # <<>> /\ Head(s) = " " THEN lstrip(Tail(s)) ELSE s

RECURSIVE rstrip(_)
rstrip(s) ==
    IF s # <<>> /\ s[Len(s)] = " " THEN rstrip(SubSeq(s, 1, Len(s) - 1)) ELSE s

\* str.strip()
strip(s) == rstrip(lstrip(s))

\* str.lower() for the letters the card rows are spelled with
lower_letter(c) ==
    CASE c = "A" -> "a" [] c = "B" -> "b" [] c = "E" -> "e" [] c = "H" -> "h"
      [] c = "É" -> "é" [] OTHER -> c

str_lower(s) == [i \in DOMAIN s |-> lower_letter(s[i])]

\* "<oe>" stands for the letter U+0153
FRENCH_VOWELS ==
    <<"a","e","i","o","u","h","é","è","ê","ë","à","â","ä","ù","û","ü","î","ï","ô","<oe>","æ">>

starts_with_vowel(word) ==
    IF word = <<>> THEN FALSE
    ELSE lower_letter(word[1]) \in Range(FRENCH_VOWELS)

wt_mf == <<"m","/","f">>

\* Mutant: the elision left out.
format_noun_no_elision(lemme_in, genre) ==
    LET lemme == strip(lemme_in)
    IN  IF genre = g_m THEN <<"l","e"," ">> \o lemme
        ELSE IF genre = g_f THEN <<"l","a"," ">> \o lemme
        ELSE IF genre = wt_mf THEN <<"l","e","/","l","a"," ">> \o lemme
        ELSE lemme

format_noun(lemme_in, genre) ==
    LET lemme == strip(lemme_in)
    IN  IF genre = g_m
        THEN IF starts_with_vowel(lemme)
             THEN <<"l","'">> \o lemme \o <<" ","(","m",")">>
             ELSE <<"l","e"," ">> \o lemme
        ELSE IF genre = g_f
        THEN IF starts_with_vowel(lemme)
             THEN <<"l","'">> \o lemme \o <<" ","(","f",")">>
             ELSE <<"l","a"," ">> \o lemme
        ELSE IF genre = wt_mf
        THEN IF starts_with_vowel(lemme)
             THEN <<"l","'">> \o lemme \o <<" ","(","m","/","f",")">>
             ELSE <<"l","e","/","l","a"," ">> \o lemme
        ELSE lemme

\* the position of the first sub in s, 0 when there is none
find(s, sub) ==
    LET hits == {i \in 1..(Len(s) - Len(sub) + 1) : SubSeq(s, i, i + Len(sub) - 1) = sub}
    IN  IF hits = {} THEN 0 ELSE CHOOSE i \in hits : \A j \in hits : i <= j

\* s.split(sep)[0]
before_first(s, sep) ==
    IF find(s, sep) = 0 THEN s ELSE SubSeq(s, 1, find(s, sep) - 1)

\* s.split(sep, 1)[1], for an s that holds sep
after_first(s, sep) == SubSeq(s, find(s, sep) + Len(sep), Len(s))

\* s.split()[0], for an s with something else than blanks
first_word(s) == before_first(lstrip(s), <<" ">>)

\* format_adjective: (french, notes); irregular_info is what dict.get
\* returned: <<>> for None, <<[form_m, form_f, notes]>> otherwise
format_adjective(lemme_in, forms, irregular_info) ==
    LET lemme == strip(lemme_in)
    IN  IF irregular_info # <<>>
        THEN IF /\ irregular_info[1].form_m # <<>>
                /\ irregular_info[1].form_f # <<>>
                /\ irregular_info[1].form_m # irregular_info[1].form_f
             THEN <<irregular_info[1].form_m \o comma \o irregular_info[1].form_f,
                    <<"irrégulier (">> \o irregular_info[1].notes \o <<")">> >>
             ELSE <<lemme, <<"invariable">> >>
        ELSE IF /\ Contains(forms, <<"/">>)
                /\ strip(forms) # <<>>
                /\ Contains(first_word(forms), <<"/">>)
        THEN LET first_part == first_word(forms)
                 m == before_first(first_part, <<"/">>)
                 f == after_first(first_part, <<"/">>)
             IN  IF m # f
                 THEN <<m \o comma \o f,
                        IF f = m \o <<"e">> THEN <<"+e au féminin">> ELSE <<>> >>
                 ELSE <<m, <<"invariable">> >>
        ELSE IF Contains(forms, <<",">>)
        THEN <<strip(before_first(forms, <<",">>)), <<"invariable">> >>
        ELSE <<lemme, <<>> >>

\* classify_verb_group: (group, notes); irregular_info is what dict.get
\* returned: <<>> for None, <<[ending_type, notes]>> otherwise
classify_verb_group(lemme, irregular_info) ==
    LET lemme_lower == str_lower(lemme)
    IN  IF irregular_info # <<>> THEN <<"3e groupe", irregular_info[1].notes>>
        ELSE IF lemme_lower = aller THEN <<"3e groupe", <<"irrégulier">> >>
        ELSE IF EndsWith(lemme_lower, <<"e","r">>) THEN <<"1er groupe", <<>> >>
        ELSE IF EndsWith(lemme_lower, <<"i","r">>)
             THEN <<"2e groupe", <<"vérifier participe (-issant)">> >>
        ELSE <<"3e groupe", <<>> >>

ADJ_num == <<"ADJ:num">>
ONO == <<"ONO">>
LIA == <<"LIA">>

\* config.get_wordtype: the entries of WORDTYPE_MAP for the categories of
\* the model, and cgram.lower() for a category that is not in the map
get_wordtype(cgram, genre) ==
    CASE cgram = NOM -> (IF genre = g_m THEN g_m ELSE IF genre = g_f THEN g_f ELSE wt_mf)
      [] cgram = VER -> <<"v">>
      [] cgram = ADJ -> <<"a","d","j">>
      [] cgram = ADV -> <<"a","d","v">>
      [] cgram = PRE -> <<"p","r","e","p">>
      [] cgram = ONO -> <<"i","n","t","e","r","j">>
      [] cgram = ADJ_num -> <<"n","u","m">>
      [] cgram = AUX -> <<"v">>
      [] cgram = LIA -> <<"l","i","a">>
      [] OTHER -> cgram

\* pos_to_wordtype on the pos values of the model: what its regular
\* expressions answer for 'n. m.', 'n. f.', 'adj.' and ''
pos_to_wordtype(pos) ==
    CASE pos = "n. m." -> g_m
      [] pos = "n. f." -> g_f
      [] pos = "adj." -> <<"a","d","j">>
      [] OTHER -> <<"?">>

Digits == <<"0","1","2","3","4","5","6","7","8","9">>

digit_value(c) == CHOOSE d \in 0..9 : Digits[d + 1] = c

is_number(s) == s # <<>> /\ \A i \in DOMAIN s : s[i] \in Range(Digits)

RECURSIVE int_of(_)
int_of(s) ==
    IF s = <<>> THEN 0
    ELSE 10 * int_of(SubSeq(s, 1, Len(s) - 1)) + digit_value(s[Len(s)])

\* float(row.get("freqlem", 0) or 0): an empty field is 0, digits are their
\* number, anything else raises ValueError
float_or_zero(s) ==
    IF s = <<>> THEN [raised |-> FALSE, value |-> 0]
    ELSE IF is_number(s) THEN [raised |-> FALSE, value |-> int_of(s)]
    ELSE [raised |-> TRUE, value |-> 0]

-----------------------------------------------------------------------------
(* Card assembly: 05_generate_cards.py, the processors *)

\* dict.get(key) over the items of a dict: <<>> for None, <<item>> otherwise
dict_get(items, key) == SelectSeq(items, LAMBDA it : it.lemme = key)

VocabEntry(french, wordtype, notes, source, freqlem, cgram, priority) ==
    [french |-> french, wordtype |-> wordtype, notes |-> notes, source |-> source,
     freqlem |-> freqlem, cgram |-> cgram, priority |-> priority]

ConjugationEntry(verb, notes, freqlem, group) ==
    [verb |-> verb, notes |-> notes, freqlem |-> freqlem, group |-> group]

\* the locals of a processor before its first row
no_cards == [vocab |-> <<>>, origin |-> <<>>, seen |-> {}, raised |-> FALSE]

\* seen.add(key); freqlem = float(...), which raised or gave a number;
\* vocab.append(entry), the record made with that number
add_entry(st, key, freqlem, entry, from) ==
    IF freqlem.raised
    THEN [st EXCEPT !.seen = @ \cup {key}, !.raised = TRUE]
    ELSE [st EXCEPT !.seen = @ \cup {key},
                    !.vocab = Append(@, entry),
                    !.origin = Append(@, from)]

\* process_nouns, one row of entries
nouns_step(st, row, i, bl) ==
    LET lemme == strip(row.lemme)
        genre == strip(row.genre)
        freqlem == float_or_zero(row.freqlem)
        entry ==
            VocabEntry(format_noun(lemme, genre),
                       IF genre = g_m THEN g_m ELSE IF genre = g_f THEN g_f ELSE wt_mf,
                       <<>>, "lexique", freqlem.value, NOM, "")
    IN  IF str_lower(lemme) \in bl THEN st
        ELSE IF str_lower(lemme) \in st.seen THEN st
        ELSE add_entry(st, str_lower(lemme), freqlem, entry, <<"entries", i>>)

\* the second loop of process_nouns without its test of seen
professions_step_unseen(st, row, i, bl) ==
    LET lemme == strip(row.lemme)
        freqlem == float_or_zero(row.freqlem)
        entry ==
            VocabEntry(format_noun(lemme, g_f), g_f,
                       IF row.lemme_m # <<>> THEN <<"fém. de ">> \o row.lemme_m
                                             ELSE row.notes,
                       "additions", freqlem.value, NOM, "")
    IN  IF str_lower(lemme) \in bl THEN st
        ELSE add_entry(st, str_lower(lemme), freqlem, entry, <<"professions_f", i>>)

\* process_nouns, one row of professions_f
professions_step(st, row, i, bl) ==
    LET lemme == strip(row.lemme)
        freqlem == float_or_zero(row.freqlem)
        entry ==
            VocabEntry(format_noun(lemme, g_f), g_f,
                       IF row.lemme_m # <<>> THEN <<"fém. de ">> \o row.lemme_m
                                             ELSE row.notes,
                       "additions", freqlem.value, NOM, "")
    IN  IF str_lower(lemme) \in bl THEN st
        ELSE IF str_lower(lemme) \in st.seen THEN st
        ELSE add_entry(st, str_lower(lemme), freqlem, entry, <<"professions_f", i>>)

\* process_adjectives, one row
adjectives_step(st, row, i, bl, irregular_adj) ==
    LET lemme == strip(row.lemme)
        fa    == format_adjective(lemme, row.forms, dict_get(irregular_adj, str_lower(lemme)))
        freqlem == float_or_zero(row.freqlem)
        entry ==
            VocabEntry(fa[1], <<"a","d","j">>, fa[2], "lexique", freqlem.value, ADJ, "")
    IN  IF str_lower(lemme) \in bl THEN st
        ELSE IF str_lower(lemme) \in st.seen THEN st
        ELSE add_entry(st, str_lower(lemme), freqlem, entry, <<"entries", i>>)

\* process_adverbs, one row
adverbs_step(st, row, i, bl) ==
    LET lemme == strip(row.lemme)
        freqlem == float_or_zero(row.freqlem)
        entry ==
            VocabEntry(lemme, <<"a","d","v">>, <<>>, "lexique", freqlem.value, ADV, "")
    IN  IF str_lower(lemme) \in bl THEN st
        ELSE IF str_lower(lemme) \in st.seen THEN st
        ELSE add_entry(st, str_lower(lemme), freqlem, entry, <<"entries", i>>)

\* process_numerals, one row of entries
numerals_step(st, row, i, bl, wl) ==
    LET lemme       == strip(row.lemme)
        lemme_lower == str_lower(lemme)
        freqlem == float_or_zero(row.freqlem)
        entry ==
            VocabEntry(lemme, <<"n","u","m">>, dict_get(wl, lemme_lower)[1].notes,
                       "lexique", freqlem.value, ADJ_num, "")
    IN  IF dict_get(wl, lemme_lower) = <<>> THEN st
        ELSE IF lemme_lower \in bl THEN st
        ELSE IF lemme_lower \in st.seen THEN st
        ELSE add_entry(st, lemme_lower, freqlem, entry, <<"entries", i>>)

\* the second loop without its test of seen
whitelist_step_unseen(st, item, i, bl) ==
    IF item.lemme \in bl THEN st
    ELSE [st EXCEPT !.seen = @ \cup {item.lemme},
                    !.vocab = Append(@, VocabEntry(item.lemme, <<"n","u","m">>, item.notes,
                                                   "whitelist", 0, ADJ_num, "")),
                    !.origin = Append(@, <<"whitelist", i>>)]

\* process_numerals, one item of whitelist
whitelist_step(st, item, i, bl) ==
    IF item.lemme \in st.seen THEN st
    ELSE IF item.lemme \in bl THEN st
    ELSE [st EXCEPT !.seen = @ \cup {item.lemme},
                    !.vocab = Append(@, VocabEntry(item.lemme, <<"n","u","m">>, item.notes,
                                                   "whitelist", 0, ADJ_num, "")),
                    !.origin = Append(@, <<"whitelist", i>>)]

\* process_other, one row
other_step(st, row, i, bl) ==
    LET lemme == strip(row.lemme)
        freqlem == float_or_zero(row.freqlem)
        entry ==
            VocabEntry(lemme, get_wordtype(row.cgram, row.genre), <<>>, "lexique",
                       freqlem.value, row.cgram, "")
    IN  IF str_lower(lemme) \in bl THEN st
        ELSE IF str_lower(lemme) \in st.seen THEN st
        ELSE add_entry(st, str_lower(lemme), freqlem, entry, <<"entries", i>>)

\* process_onomatopoeia, one row
onomatopoeia_step(st, row, i, bl) ==
    LET lemme == strip(row.lemme)
        freqlem == float_or_zero(row.freqlem)
        entry ==
            VocabEntry(lemme, <<"i","n","t","e","r","j">>, <<>>, "lexique", freqlem.value, ONO, "")
    IN  IF str_lower(lemme) \in bl THEN st
        ELSE IF str_lower(lemme) \in st.seen THEN st
        ELSE add_entry(st, str_lower(lemme), freqlem, entry, <<"entries", i>>)

\* process_verbs, one row
verbs_step(st, row, i, bl, irregular_verbs) ==
    LET lemme == strip(row.lemme)
        cvg   == classify_verb_group(lemme, dict_get(irregular_verbs, str_lower(lemme)))
        freqlem == float_or_zero(row.freqlem)
        entry == ConjugationEntry(lemme, cvg[2], freqlem.value, cvg[1])
    IN  IF str_lower(lemme) \in bl THEN st
        ELSE IF str_lower(lemme) \in st.seen THEN st
        ELSE add_entry(st, str_lower(lemme), freqlem, entry, <<"entries", i>>)

\* definition[:80] + "..." if len(definition) > 80 else definition
preview(definition) ==
    IF Len(definition) > 80 THEN SubSeq(definition, 1, 80) \o <<"...">> ELSE definition

\* process_quebecismes, one row
quebecismes_step(st, row, i, bl) ==
    LET word     == strip(row.word)
        wordtype == pos_to_wordtype(row.pos)
        french   == IF wordtype \in {g_m, g_f, wt_mf} THEN format_noun(word, wordtype)
                    ELSE word
        preview_notes == IF row.definition # <<>> THEN preview(row.definition) ELSE <<>>
        notes    == IF row.translation # <<>>
                    THEN IF preview_notes # <<>>
                         THEN row.translation \o <<" | ">> \o preview_notes
                         ELSE row.translation
                    ELSE preview_notes
    IN  IF word = <<>> THEN st
        ELSE IF str_lower(word) \in bl THEN st
        ELSE IF str_lower(word) \in st.seen THEN st
        ELSE [st EXCEPT !.seen = @ \cup {str_lower(word)},
                        !.vocab = Append(@, VocabEntry(french, wordtype, notes, "quebecismes",
                                                       0, <<>>, row.priority)),
                        !.origin = Append(@, <<"entries", i>>)]

\* one turn of the for loop of the processor named proc
row_step(proc, st, row, i, bl, table) ==
    CASE proc = "process_nouns"        -> nouns_step(st, row, i, bl)
      [] proc = "professions_f"        -> professions_step(st, row, i, bl)
      [] proc = "process_adjectives"   -> adjectives_step(st, row, i, bl, table)
      [] proc = "process_adverbs"      -> adverbs_step(st, row, i, bl)
      [] proc = "process_numerals"     -> numerals_step(st, row, i, bl, table)
      [] proc = "whitelist"            -> whitelist_step(st, row, i, bl)
      [] proc = "process_other"        -> other_step(st, row, i, bl)
      [] proc = "process_onomatopoeia" -> onomatopoeia_step(st, row, i, bl)
      [] proc = "process_verbs"        -> verbs_step(st, row, i, bl, table)
      [] proc = "process_quebecismes"  -> quebecismes_step(st, row, i, bl)

\* for row in rs: ..., from row i on; an exception ends the loop
RECURSIVE for_rows(_, _, _, _, _, _)
for_rows(proc, st, rs, i, bl, table) ==
    IF i > Len(rs) \/ st.raised THEN st
    ELSE for_rows(proc, row_step(proc, st, rs[i], i, bl, table), rs, i + 1, bl, table)

process_nouns(rs, bl, profs) ==
    for_rows("professions_f", for_rows("process_nouns", no_cards, rs, 1, bl, <<>>),
             profs, 1, bl, <<>>)

process_adjectives(rs, bl, irregular_adj) ==
    for_rows("process_adjectives", no_cards, rs, 1, bl, irregular_adj)

process_adverbs(rs, bl) == for_rows("process_adverbs", no_cards, rs, 1, bl, <<>>)

process_numerals(rs, bl, wl) ==
    for_rows("whitelist", for_rows("process_numerals", no_cards, rs, 1, bl, wl),
             wl, 1, bl, <<>>)

process_other(rs, bl) == for_rows("process_other", no_cards, rs, 1, bl, <<>>)

process_onomatopoeia(rs, bl) == for_rows("process_onomatopoeia", no_cards, rs, 1, bl, <<>>)

process_verbs(rs, bl, irregular_verbs) ==
    for_rows("process_verbs", no_cards, rs, 1, bl, irregular_verbs)

process_quebecismes(rs, bl) == for_rows("process_quebecismes", no_cards, rs, 1, bl, <<>>)

-----------------------------------------------------------------------------
(* Conjugation skeletons: 05b_generate_conjugation.py, the present *)

parler    == <<"p","a","r","l","e","r">>
manger    == <<"m","a","n","g","e","r">>
commencer == <<"c","o","m","m","e","n","c","e","r">>
finir     == <<"f","i","n","i","r">>
choisir   == <<"c","h","o","i","s","i","r">>

SAMPLE_1ER_GROUPE == <<parler, manger, commencer>>
SAMPLE_2E_GROUPE  == <<finir, choisir>>

PresentEntry(verb, group, pattern, freqlem) ==
    [verb |-> verb, group |-> group, pattern |-> pattern, freqlem |-> freqlem]

\* load_verbs_from_category: the items of verbs, a later row of a lemma
\* replaces the frequency of an earlier one; float() may raise
RECURSIVE load_verbs(_, _, _)
load_verbs(rs, i, st) ==
    IF i > Len(rs) \/ st.raised THEN st
    ELSE LET lemme == str_lower(strip(rs[i].lemme))
             f     == float_or_zero(rs[i].freqlem)
             there == {k \in DOMAIN st.items : st.items[k].lemme = lemme}
             item  == [lemme |-> lemme, freqlem |-> f.value]
         IN  load_verbs(rs, i + 1,
                IF f.raised THEN [st EXCEPT !.raised = TRUE]
                ELSE IF there = {} THEN [st EXCEPT !.items = Append(@, item)]
                ELSE [st EXCEPT !.items = [k \in DOMAIN @ |->
                                              IF k \in there THEN item ELSE @[k]]])

\* verbs.get(verb, (0.0, ""))[0]
verb_freqlem(verbs, verb) ==
    IF dict_get(verbs, verb) = <<>> THEN 0 ELSE dict_get(verbs, verb)[1].freqlem

sample_pattern(verb) ==
    IF verb = manger THEN <<"-ger (nous mangeons)">>
    ELSE IF verb = commencer THEN <<"-cer (nous commençons)">>
    ELSE <<"-er régulier">>

\* generate_present_entries, one turn of the loop named part
present_step(part, st, x, i, verbs) ==
    LET verb == IF part = "irregular_patterns" THEN x.lemme ELSE x
        entry ==
            CASE part = "irregular_patterns" ->
                    PresentEntry(verb, "3e groupe", x.pattern, verb_freqlem(verbs, verb))
              [] part = "SAMPLE_1ER_GROUPE" ->
                    PresentEntry(verb, "1er groupe", sample_pattern(verb),
                                 verb_freqlem(verbs, verb))
              [] part = "SAMPLE_2E_GROUPE" ->
                    PresentEntry(verb, "2e groupe", <<"-ir/-issant régulier">>,
                                 verb_freqlem(verbs, verb))
    IN  IF verb \in st.seen THEN st
        ELSE [st EXCEPT !.seen = @ \cup {verb},
                        !.vocab = Append(@, entry),
                        !.origin = Append(@, <<part, i>>)]

RECURSIVE for_verbs(_, _, _, _, _)
for_verbs(part, st, xs, i, verbs) ==
    IF i > Len(xs) THEN st
    ELSE for_verbs(part, present_step(part, st, xs[i], i, verbs), xs, i + 1, verbs)

\* ord() of the letters of the verbs
LowerCase ==
    <<"a","b","c","d","e","f","g","h","i","j","k","l","m",
      "n","o","p","q","r","s","t","u","v","w","x","y","z">>

letter_ord(c) == 96 + (CHOOSE k \in DOMAIN LowerCase : LowerCase[k] = c)

RECURSIVE verb_less(_, _)
verb_less(s, t) ==
    IF t = <<>> THEN FALSE
    ELSE IF s = <<>> THEN TRUE
    ELSE IF letter_ord(Head(s)) # letter_ord(Head(t))
         THEN letter_ord(Head(s)) < letter_ord(Head(t))
    ELSE verb_less(Tail(s), Tail(t))

\* key(x) < key(y) for key = (-x.freqlem, x.verb)
present_key_less(x, y) ==
    \/ -(x.freqlem) < -(y.freqlem)
    \/ x.freqlem = y.freqlem /\ verb_less(x.verb, y.verb)

\* where list.sort puts the element of position i: behind the elements of
\* smaller key and behind the earlier elements of equal key
sorted_position(seq, i) ==
    1 + Cardinality({j \in DOMAIN seq :
                        \/ present_key_less(seq[j], seq[i])
                        \/ ~present_key_less(seq[i], seq[j]) /\ j < i})

\* the order list.sort(key=lambda x: (-x.freqlem, x.verb)) leaves:
\* sort_order[k] is the old position of the element now at k
sort_order(seq) ==
    [k \in DOMAIN seq |-> CHOOSE i \in DOMAIN seq : sorted_position(seq, i) = k]

generate_present_entries(verbs, irregular_patterns) ==
    LET st3 == for_verbs("SAMPLE_2E_GROUPE",
                  for_verbs("SAMPLE_1ER_GROUPE",
                     for_verbs("irregular_patterns", no_cards, irregular_patterns, 1, verbs),
                     SAMPLE_1ER_GROUPE, 1, verbs),
                  SAMPLE_2E_GROUPE, 1, verbs)
        ord_  == sort_order(st3.vocab)
    IN  [st3 EXCEPT !.vocab  = [k \in DOMAIN ord_ |-> st3.vocab[ord_[k]]],
                    !.origin = [k \in DOMAIN ord_ |-> st3.origin[ord_[k]]]]

-----------------------------------------------------------------------------
(* Card assembly: the files read and the runs *)

MaxCatRows == 2

SeqsUpTo(S, n) == UNION {[1..k -> S] : k \in 0..n}

CardWords == {<<"a">>, <<"A">>, <<"b">>, <<" ","a">>}

ber == <<"b","e","r">>

VerbWords == {aller, ber, <<"B","e","r">>, <<"b","i","r">>, finir}

\* a frequency field: a number, and a field that is no number
FreqFields == {<<"5">>, <<"x">>}

NounRows == [lemme : CardWords, genre : {g_m, <<>>}, freqlem : FreqFields]

ProfessionRows ==
    [lemme : {<<"a">>, <<"b">>}, lemme_m : {<<>>, <<"c">>}, notes : {<<>>},
     freqlem : {<<"5">>}]

AdjectiveRows ==
    [lemme : {<<"a">>, <<"A">>, <<"b">>},
     forms : {<<>>, <<"a","/","a","e"," ","a","s","/","a","e","s">>, <<"a",","," ","a","s">>},
     freqlem : {<<"5">>}]
    \cup {[lemme |-> <<"b">>, forms |-> <<>>, freqlem |-> <<"x">>]}

IrregularAdjectives ==
    {<<>>,
     <<[lemme |-> <<"a">>, form_m |-> <<"a">>, form_f |-> <<"a","l","e">>,
        notes |-> <<"-a → -ale">>]>>}

AdverbRows == [lemme : CardWords, freqlem : FreqFields \cup {<<>>}]

NumeralRows == [lemme : CardWords, freqlem : FreqFields]

\* the keys are lower-cased by the loader and are not stripped
WhitelistItems ==
    {[lemme |-> <<"a">>, notes |-> <<"un">>], [lemme |-> <<"b">>, notes |-> <<>>],
     [lemme |-> <<" ","a">>, notes |-> <<>>]}

\* a dict has one item for a key
Whitelists ==
    {w \in SeqsUpTo(WhitelistItems, 2) : \A i, j \in DOMAIN w : i # j => w[i].lemme # w[j].lemme}

OtherRows ==
    [lemme : {<<"a">>, <<"A">>, <<"b">>}, cgram : {PRE, ADJ_num, LIA}, genre : {<<>>},
     freqlem : {<<"5">>}]
    \cup {[lemme |-> <<"b">>, cgram |-> PRE, genre |-> <<>>, freqlem |-> <<"x">>]}

VerbRowsOfCategory == [lemme : VerbWords, freqlem : FreqFields]

IrregularVerbs ==
    {<<>>, <<[lemme |-> ber, ending_type |-> <<"-er">>, notes |-> <<"note">>]>>}

IrregularPatterns ==
    {<<>>, <<[lemme |-> aller, pattern |-> <<"-er (irrégulier)">>]>>,
     <<[lemme |-> ber, pattern |-> <<"-er">>], [lemme |-> finir, pattern |-> <<"-ir">>]>>}

QuebecismeRows ==
    {[word |-> w, pos |-> p, definition |-> d[1], translation |-> d[2], priority |-> "high"] :
        w \in {<<"a">>, <<"A">>, <<"b">>, <<>>}, p \in {"n. m.", "adj.", ""},
        d \in {<< <<>>, <<>> >>, << <<"d">>, <<"t">> >>}}

InitCards ==
    /\ \/ /\ script = "05_generate_cards.process_nouns"
          /\ entries \in SeqsUpTo(NounRows, MaxCatRows)
          /\ professions_f \in SeqsUpTo(ProfessionRows, 1)
          /\ whitelist = <<>> /\ irregular = <<>>
          /\ blacklist \in SUBSET {<<"a">>, <<"b">>}
       \/ /\ script = "05_generate_cards.process_adjectives"
          /\ entries \in SeqsUpTo(AdjectiveRows, MaxCatRows)
          /\ irregular \in IrregularAdjectives
          /\ whitelist = <<>> /\ professions_f = <<>>
          /\ blacklist \in SUBSET {<<"a">>, <<"b">>}
       \/ /\ script = "05_generate_cards.process_adverbs"
          /\ entries \in SeqsUpTo(AdverbRows, MaxCatRows)
          /\ whitelist = <<>> /\ professions_f = <<>> /\ irregular = <<>>
          /\ blacklist \in SUBSET {<<"a">>, <<"b">>}
       \/ /\ script = "05_generate_cards.process_numerals"
          /\ entries \in SeqsUpTo(NumeralRows, MaxCatRows)
          /\ whitelist \in Whitelists
          /\ professions_f = <<>> /\ irregular = <<>>
          /\ blacklist \in SUBSET {<<"a">>, <<"b">>}
       \/ /\ script = "05_generate_cards.process_other"
          /\ entries \in SeqsUpTo(OtherRows, MaxCatRows)
          /\ whitelist \in Whitelists
          /\ professions_f = <<>> /\ irregular = <<>>
          /\ blacklist \in SUBSET {<<"a">>, <<"b">>}
       \/ /\ script = "05_generate_cards.process_onomatopoeia"
          /\ entries \in SeqsUpTo(AdverbRows, MaxCatRows)
          /\ whitelist = <<>> /\ professions_f = <<>> /\ irregular = <<>>
          /\ blacklist \in SUBSET {<<"a">>, <<"b">>}
       \/ /\ script = "05_generate_cards.process_verbs"
          /\ entries \in SeqsUpTo(VerbRowsOfCategory, MaxCatRows)
          /\ irregular \in IrregularVerbs
          /\ whitelist = <<>> /\ professions_f = <<>>
          /\ blacklist \in SUBSET {ber, aller}
       \/ /\ script = "05_generate_cards.process_quebecismes"
          /\ entries \in SeqsUpTo(QuebecismeRows, MaxCatRows)
          /\ whitelist = <<>> /\ professions_f = <<>> /\ irregular = <<>>
          /\ blacklist \in SUBSET {<<"a">>, <<"b">>}
       \/ /\ script = "05b_generate_conjugation"
          /\ entries \in SeqsUpTo(VerbRowsOfCategory, MaxCatRows)
          /\ irregular \in IrregularPatterns
          /\ whitelist = <<>> /\ professions_f = <<>>
          /\ blacklist \in SUBSET {ber, aller, parler}
    /\ vocab = <<>>
    /\ origin = <<>>
    /\ cards_pc = "start"

IdleProc ==
    /\ entries = <<>> /\ blacklist = {} /\ whitelist = <<>> /\ professions_f = <<>>
    /\ irregular = <<>> /\ vocab = <<>> /\ origin = <<>> /\ cards_pc = "idle"

IdleNoun == noun_lemme = <<>> /\ noun_genre = <<>> /\ noun_result = <<"<pending>">>

IdleCols == columns = {} /\ kinds = {} /\ progress = <<>> /\ col_pc = "idle"

IdleFiles == files = <<>>

IdleLevels == skeleton = <<>> /\ batches = <<>> /\ level_files = <<>> /\ level_pc = "idle"

IdleTable ==
    verb_freq = 0 /\ irregular_csv = <<>> /\ card_group = <<"<pending>">> /\ table_pc = "idle"

IdleMedia ==
    /\ media_files = [n \in {} |-> <<>>] /\ conflicts = <<>> /\ calls = <<>>
    /\ include_audio = FALSE /\ pending = <<>> /\ on_disk = {} /\ deck_notes = <<>>

IdleDeck == IdleTable /\ IdleMedia

IdleStages == IdleCols /\ IdleFiles /\ IdleLevels /\ IdleDeck

IdleCards == IdleProc /\ IdleNoun /\ IdleStages

\* the processor returned st, or float() raised in it
Returned(st) ==
    /\ vocab' = IF st.raised THEN <<>> ELSE st.vocab
    /\ origin' = IF st.raised THEN <<>> ELSE st.origin
    /\ cards_pc' = IF st.raised THEN "ValueError" ELSE "done"
    /\ UNCHANGED <<script, entries, blacklist, whitelist, professions_f, irregular,
                   adjVars, verbVars, formVars, selVars, rankVars, nounVars, stageVars>>

ProcessNouns ==
    /\ script = "05_generate_cards.process_nouns" /\ cards_pc = "start"
    /\ Returned(process_nouns(entries, blacklist, professions_f))

ProcessAdjectives ==
    /\ script = "05_generate_cards.process_adjectives" /\ cards_pc = "start"
    /\ Returned(process_adjectives(entries, blacklist, irregular))

ProcessAdverbs ==
    /\ script = "05_generate_cards.process_adverbs" /\ cards_pc = "start"
    /\ Returned(process_adverbs(entries, blacklist))

ProcessNumerals ==
    /\ script = "05_generate_cards.process_numerals" /\ cards_pc = "start"
    /\ Returned(process_numerals(entries, blacklist, whitelist))

ProcessOther ==
    /\ script = "05_generate_cards.process_other" /\ cards_pc = "start"
    /\ Returned(process_other(entries, blacklist))

ProcessOnomatopoeia ==
    /\ script = "05_generate_cards.process_onomatopoeia" /\ cards_pc = "start"
    /\ Returned(process_onomatopoeia(entries, blacklist))

ProcessVerbs ==
    /\ script = "05_generate_cards.process_verbs" /\ cards_pc = "start"
    /\ Returned(process_verbs(entries, blacklist, irregular))

ProcessQuebecismes ==
    /\ script = "05_generate_cards.process_quebecismes" /\ cards_pc = "start"
    /\ Returned(process_quebecismes(entries, blacklist))

\* 05b_generate_conjugation.main up to the present entries; the script
\* reads no blacklist
GeneratePresentEntries ==
    /\ script = "05b_generate_conjugation" /\ cards_pc = "start"
    /\ LET loaded == load_verbs(entries, 1, [items |-> <<>>, raised |-> FALSE])
       IN  Returned(IF loaded.raised THEN [no_cards EXCEPT !.raised = TRUE]
                    ELSE generate_present_entries(loaded.items, irregular))

\* the call format_noun(lemme, genre)
MaxNounLen == 2

NounLetters == {"a", "A", "h", "H", "é", "É", "b", "y", " "}

NounGenres == {g_m, g_f, wt_mf, <<>>, <<"x">>}

InitNoun ==
    /\ script = "05_generate_cards.format_noun"
    /\ noun_lemme \in SeqsUpTo(NounLetters, MaxNounLen)
    /\ noun_genre \in NounGenres
    /\ noun_result = <<"<pending>">>

FormatNoun ==
    /\ script = "05_generate_cards.format_noun"
    /\ noun_result = <<"<pending>">>
    /\ noun_result' = format_noun(noun_lemme, noun_genre)
    /\ UNCHANGED <<script, noun_lemme, noun_genre, procVars, stageVars,
                   adjVars, verbVars, formVars, selVars, rankVars>>

NextCards ==
    \/ ProcessNouns \/ ProcessAdjectives \/ ProcessAdverbs \/ ProcessNumerals
    \/ ProcessOther \/ ProcessOnomatopoeia \/ ProcessVerbs \/ ProcessQuebecismes
    \/ GeneratePresentEntries

-----------------------------------------------------------------------------
(* The entry points of the selection and the columns of the lexicon:
   01_extract_categories.main and extract_lexique_selection.main *)

REQUIRED_LEXIQUE_COLUMNS ==
    <<"ortho", "lemme", "cgram", "genre", "nombre",
      "freqlemfilms2", "freqlemlivres", "islem", "nbhomogr">>

\* the columns extract_lexique_selection reads besides
OtherLexiqueColumns == {"infover", "freqfilms2", "freqlivres"}

\* the columns a step of 01_extract_categories.main reads; a row-level read
\* happens when the frame has a row
columns_of_01(step, ks) ==
    CASE step = "forms"  ->
            {"lemme", "cgram"}
            \cup IF ks # {} THEN {"genre", "nombre", "ortho"} ELSE {}
      [] step = "filter" -> {"islem", "freqlemfilms2", "freqlemlivres", "lemme", "cgram", "genre"}
      [] step = "write"  -> {"cgram"}

\* the same for extract_lexique_selection.main: get_word_forms reads the rows
\* that are no verbs, get_verb_forms the rows of the verbs
columns_of_ELS(step, ks) ==
    CASE step = "forms"  ->
            {"lemme", "cgram"}
            \cup (IF "word" \in ks
                  THEN {"genre", "nombre", "ortho", "freqfilms2", "freqlivres"} ELSE {})
            \cup (IF "verb" \in ks THEN {"infover", "ortho", "genre", "nombre"} ELSE {})
      [] step = "filter" -> {"islem", "freqlemfilms2", "freqlemlivres", "lemme", "cgram", "genre"}
      [] step = "write"  -> {"cgram"}

MainSteps == <<"forms", "filter", "write">>

\* the steps run until one reads a column the frame lacks; needs[step] is the
\* set of columns the step reads
RECURSIVE run_steps(_, _, _)
run_steps(done, todo, needs) ==
    IF todo = <<>> THEN [progress |-> done, raised |-> FALSE]
    ELSE IF ~(needs[Head(todo)] \subseteq columns)
         THEN [progress |-> done, raised |-> TRUE]
         ELSE run_steps(Append(done, Head(todo)), Tail(todo), needs)

InitColumns ==
    /\ script \in {"01_extract_categories.main", "extract_lexique_selection.main"}
    /\ columns \in SUBSET (Range(REQUIRED_LEXIQUE_COLUMNS) \cup OtherLexiqueColumns)
    /\ kinds \in SUBSET {"word", "verb"}
    /\ progress = <<>>
    /\ col_pc = "start"

\* 01_extract_categories.main on the loaded frame
Main01 ==
    /\ script = "01_extract_categories.main" /\ col_pc = "start"
    /\ LET missing == Range(REQUIRED_LEXIQUE_COLUMNS) \ columns
           ran == run_steps(<<>>, MainSteps, [st \in Range(MainSteps) |-> columns_of_01(st, kinds)])
       IN  IF missing # {}
           THEN progress' = <<"report">> /\ col_pc' = "return 1"
           ELSE /\ progress' = ran.progress
                /\ col_pc' = IF ran.raised THEN "KeyError" ELSE "return 0"
    /\ UNCHANGED <<script, columns, kinds, procVars, nounVars, partVars, levelVars, deckVars,
                   adjVars, verbVars, formVars, selVars, rankVars>>

\* extract_lexique_selection.main on the loaded frame
MainELS ==
    /\ script = "extract_lexique_selection.main" /\ col_pc = "start"
    /\ LET ran == run_steps(<<>>, MainSteps, [st \in Range(MainSteps) |-> columns_of_ELS(st, kinds)])
       IN  /\ progress' = ran.progress
           /\ col_pc' = IF ran.raised THEN "KeyError" ELSE "return"
    /\ UNCHANGED <<script, columns, kinds, procVars, nounVars, partVars, levelVars, deckVars,
                   adjVars, verbVars, formVars, selVars, rankVars>>

NextColumns == Main01 \/ MainELS

-----------------------------------------------------------------------------
(* Partition: 01_extract_categories.main, steps 8 and 9 *)

\* 100 in config.py; the model partitions a handful of rows
MIN_CATEGORY_SIZE == 2

\* result['cgram'].value_counts(), one category
category_count(res, cat) == Len(SelectSeq(res, LAMBDA r : r.cgram = cat))

categories_of(res) == {res[i].cgram : i \in DOMAIN res}

\* Mutant: a category of exactly MIN_CATEGORY_SIZE lemmas counted as small.
large_categories_above(res) ==
    {cat \in categories_of(res) : category_count(res, cat) > MIN_CATEGORY_SIZE}

large_categories(res) ==
    {cat \in categories_of(res) : category_count(res, cat) >= MIN_CATEGORY_SIZE}

small_categories(res) ==
    {cat \in categories_of(res) : category_count(res, cat) < MIN_CATEGORY_SIZE}

\* cat.replace(':', '_') + '.csv', for the categories of the model
file_name(cat) ==
    CASE cat = NOM -> "NOM.csv" [] cat = VER -> "VER.csv" [] cat = PRE -> "PRE.csv"
      [] cat = ADJ -> "ADJ.csv" [] cat = ADV -> "ADV.csv" [] cat = ADJ_num -> "ADJ_num.csv"

\* the categories of the model in ascending order of their names
CategoryOrder == <<ADJ, ADJ_num, ADV, NOM, PRE, VER>>

\* result[result['cgram'] == cat].sort_values('freqlem', ascending=False)
cat_data(res, cat) == sort_values(SelectSeq(res, LAMBDA r : r.cgram = cat))

\* result[result['cgram'].isin(small_categories)]
\*     .sort_values(['cgram', 'freqlem'], ascending=[True, False]):
\* the categories from position i of CategoryOrder on
RECURSIVE other_data(_, _, _)
other_data(res, small, i) ==
    IF i > Len(CategoryOrder) THEN {<<>>}
    ELSE IF CategoryOrder[i] \notin small THEN other_data(res, small, i + 1)
    ELSE {a \o b : a \in cat_data(res, CategoryOrder[i]), b \in other_data(res, small, i + 1)}

\* the for loop over large_categories: the files it can leave
RECURSIVE category_files(_, _)
category_files(res, large) ==
    IF large = {} THEN {<<>>}
    ELSE LET cat == CHOOSE c \in large : TRUE
         IN  {(file_name(cat) :> rows_c) @@ f :
                 rows_c \in cat_data(res, cat), f \in category_files(res, large \ {cat})}

\* the files main writes for a selection, other.csv last
save_files(res) ==
    {("other.csv" :> o) @@ f :
        o \in other_data(res, small_categories(res), 1),
        f \in category_files(res, large_categories(res))}

\* the lemma rows of the file, lemme aside
PartitionRows ==
    {[cgram |-> cg, islem |-> 1, freqlemfilms2 |-> c, freqlemlivres |-> <<>>] :
        cg \in {NOM, PRE, ADJ_num}, c \in {<<>>, <<1>>}}

InitPartition ==
    /\ script = "01_extract_categories.partition"
    /\ \E k \in 0..MaxDfRows : \E f \in [1..k -> PartitionRows] :
          df = [i \in 1..k |-> named(f[i], i)]
    /\ result = <<>>
    /\ select_pc = "start"
    /\ files = <<>>

\* 01_extract_categories.main, from the lemma filter to the saved files
SavePartitions ==
    /\ script = "01_extract_categories.partition"
    /\ select_pc = "start"
    /\ result' = select_categories(df)
    /\ files' \in save_files(select_categories(df))
    /\ select_pc' = "saved"
    /\ UNCHANGED <<script, df, adjVars, verbVars, formVars, rankVars, procVars, nounVars,
                   colVars, levelVars, deckVars>>

-----------------------------------------------------------------------------
(* Levels: 10_reorganize_vocabulary.py *)

MAJOR_TYPES == {"m", "f", "m/f", "v", "adj"}

\* (0, 1000), (1000, 3000), (3000, 5000), (5000, None) in the source; the
\* model ranks a handful of words and keeps the boundaries at 1, 2 and 3.
\* end is <<>> for None
LEVELS ==
    <<[name |-> "a1_a2", start |-> 0, end |-> <<1>>],
      [name |-> "b1",    start |-> 1, end |-> <<2>>],
      [name |-> "b2",    start |-> 2, end |-> <<3>>],
      [name |-> "c1",    start |-> 3, end |-> <<>>]>>

\* load_skeleton: df['rank'] = range(len(df))
with_rank(skel) ==
    [i \in DOMAIN skel |->
        [French |-> skel[i].French, WordType |-> skel[i].WordType, rank |-> <<i - 1>>]]

\* batches.merge(skeleton[...], on='French', how='left'), one row of batches:
\* a row for each row of the skeleton with its French, or one row of NaN
merge_row(french, skel) ==
    LET matches == SelectSeq(with_rank(skel), LAMBDA r : r.French = french)
    IN  IF matches = <<>> THEN <<[French |-> french, WordType |-> NaN, rank |-> <<>>]>>
        ELSE matches

RECURSIVE merge(_, _)
merge(bs, skel) ==
    IF bs = <<>> THEN <<>> ELSE merge_row(Head(bs), skel) \o merge(Tail(bs), skel)

\* merged.drop_duplicates(subset='French', keep='first')
RECURSIVE drop_duplicates(_, _)
drop_duplicates(seq, seen) ==
    IF seq = <<>> THEN <<>>
    ELSE IF Head(seq).French \in seen THEN drop_duplicates(Tail(seq), seen)
    ELSE <<Head(seq)>> \o drop_duplicates(Tail(seq), seen \cup {Head(seq).French})

merge_with_skeleton(bs, skel) == drop_duplicates(merge(bs, skel), {})

\* rank(x) < rank(y) in sort_values('rank'): NaN goes last
rank_less(x, y) == x.rank # <<>> /\ (y.rank = <<>> \/ x.rank[1] < y.rank[1])

\* sort_values('rank') of rows that are in no order; the ranks of the rows
\* that remain after drop_duplicates differ, and one row at most has none
RECURSIVE sort_by_rank(_)
sort_by_rank(seq) ==
    IF seq = <<>> THEN <<>>
    ELSE LET i == CHOOSE k \in DOMAIN seq : \A j \in DOMAIN seq : ~rank_less(seq[j], seq[k])
         IN  <<seq[i]>> \o sort_by_rank(SubSeq(seq, 1, i - 1) \o SubSeq(seq, i + 1, Len(seq)))

\* split_by_category: (major, other)
split_by_category(merged) ==
    [major |-> sort_by_rank(SelectSeq(merged, LAMBDA r : r.WordType \in MAJOR_TYPES)),
     other |-> sort_by_rank(SelectSeq(merged, LAMBDA r : r.WordType \notin MAJOR_TYPES))]

\* major[(major['rank'] >= start) & (major['rank'] < end)], or without the
\* second test when end is None
level_df(major, level) ==
    SelectSeq(major, LAMBDA r : /\ r.rank[1] >= level.start
                                /\ (level.end = <<>> \/ r.rank[1] < level.end[1]))

french_of(seq) == [i \in DOMAIN seq |-> seq[i].French]

\* save_level_files: autres.csv and a file for each level
save_level_files(major, other) ==
    [n \in {"autres"} \cup {LEVELS[i].name : i \in DOMAIN LEVELS} |->
        IF n = "autres" THEN french_of(other)
        ELSE french_of(level_df(major, LEVELS[CHOOSE i \in DOMAIN LEVELS : LEVELS[i].name = n]))]

MaxSkeleton == 4

\* row i of the skeleton is about the word LevelWords[i]
LevelWords == <<"un", "deux", "trois", "quatre", "cinq">>

\* a word of the batches that the skeleton has not
Unranked == "zut"

InitLevels ==
    /\ script = "10_reorganize_vocabulary"
    /\ \E k \in 0..MaxSkeleton : \E t \in [1..k -> {"v", "adv"}] :
          /\ skeleton = [i \in 1..k |-> [French |-> LevelWords[i], WordType |-> t[i]]]
          /\ batches \in SeqsUpTo({LevelWords[i] : i \in 1..k} \cup {Unranked}, k)
    /\ level_files = <<>>
    /\ level_pc = "start"

\* 10_reorganize_vocabulary.main
ReorganizeVocabulary ==
    /\ script = "10_reorganize_vocabulary"
    /\ level_pc = "start"
    /\ LET merged == merge_with_skeleton(batches, skeleton)
           parts  == split_by_category(merged)
       IN  level_files' = save_level_files(parts.major, parts.other)
    /\ level_pc' = "done"
    /\ UNCHANGED <<script, skeleton, batches, procVars, nounVars, colVars, partVars, deckVars,
                   adjVars, verbVars, formVars, selVars, rankVars>>

-----------------------------------------------------------------------------
(* The irregular verb table: 04d_find_irregular_verbs.main writes it,
   05_generate_cards.main reads it *)

\* config.FREQ_MIN_THRESHOLD = 0.67, in hundredths
FREQ_MIN_THRESHOLD == 67

\* result['lemme'].map(IRREGULAR_PATTERNS).fillna(''), for the lemmas at hand
irregular_notes(lemme) ==
    IF lemme = aller THEN <<"3e groupe (-er exception)">> ELSE <<>>

\* 04d main on one verb lemma of the lexicon: the rows of irregular_freq,
\* with group_reason renamed to ending_type
irregular_freq(lemme, freqlem, participe_present) ==
    LET classification == get_verb_group(lemme, participe_present)
    IN  IF classification[1] = 3 /\ freqlem >= FREQ_MIN_THRESHOLD
        THEN <<[lemme |-> lemme, ending_type |-> <<classification[2]>>,
                notes |-> irregular_notes(lemme)]>>
        ELSE <<>>

\* load_irregular_verbs: the items lemme.lower() -> (ending_type, notes)
load_irregular_verbs(csv_rows) ==
    [i \in DOMAIN csv_rows |-> [csv_rows[i] EXCEPT !.lemme = str_lower(@)]]

VerbFreqs == {0, FREQ_MIN_THRESHOLD - 1, FREQ_MIN_THRESHOLD, 100}

\* one verb lemma of the lexicon, with its frequency and the spelling of
\* its first row tagged 'par:pre;'
InitTable ==
    /\ script = "04d_find_irregular_verbs.main"
    /\ \E stem \in VerbStems :
          /\ verb_lemme \in {stem \o e : e \in VerbEndings}
          /\ verb_pp \in {NaN} \cup {stem \o e : e \in ParticipleEndings}
    /\ verb_result = Pending
    /\ verb_freq \in VerbFreqs
    /\ irregular_csv = <<>>
    /\ card_group = Pending
    /\ table_pc = "start"

\* 04d main: classify the lemma, save the irregular verbs above the threshold
FindIrregularVerbs ==
    /\ script = "04d_find_irregular_verbs.main"
    /\ table_pc = "start"
    /\ verb_result' = get_verb_group(verb_lemme, verb_pp)
    /\ irregular_csv' = irregular_freq(verb_lemme, verb_freq, verb_pp)
    /\ table_pc' = "written"
    /\ UNCHANGED <<script, verb_lemme, verb_pp, verb_freq, card_group,
                   adjVars, formVars, selVars, rankVars, procVars, nounVars,
                   colVars, partVars, levelVars, mediaVars>>

\* 05 main and process_verbs on the row of the lemma: the table is loaded,
\* the lemma looked up and classified
ClassifyVerbForCard ==
    /\ script = "04d_find_irregular_verbs.main"
    /\ table_pc = "written"
    /\ LET lemme == strip(verb_lemme)
           irregular_info == dict_get(load_irregular_verbs(irregular_csv), str_lower(lemme))
       IN  card_group' = classify_verb_group(lemme, irregular_info)
    /\ table_pc' = "done"
    /\ UNCHANGED <<script, verbVars, verb_freq, irregular_csv,
                   adjVars, formVars, selVars, rankVars, procVars, nounVars,
                   colVars, partVars, levelVars, mediaVars>>

NextTable == FindIrregularVerbs \/ ClassifyVerbForCard

-----------------------------------------------------------------------------
(* The deck: 11_build_deck.py, with utils.slugify and config.get_audio_dir *)

\* utils.MAX_SLUG_LENGTH
MAX_SLUG_LENGTH == 200

\* ACCENT_MAP: what str.replace puts for a letter; "<oe>" stands for U+0153
ACCENT_MAP(c) ==
    CASE c \in {"é", "è", "ê", "ë"} -> <<"e">>
      [] c \in {"à", "â", "ä"} -> <<"a">>
      [] c \in {"ù", "û", "ü"} -> <<"u">>
      [] c \in {"î", "ï"} -> <<"i">>
      [] c \in {"ô", "ö"} -> <<"o">>
      [] c = "ç" -> <<"c">>
      [] c = "<oe>" -> <<"o", "e">>
      [] c = "æ" -> <<"a", "e">>
      [] c = "ÿ" -> <<"y">>
      [] OTHER -> <<c>>

RECURSIVE Flatten(_)
Flatten(parts) == IF parts = <<>> THEN <<>> ELSE Head(parts) \o Flatten(Tail(parts))

\* str.replace(old, new) for a single character old
replace_char(s, old, new) == [i \in DOMAIN s |-> IF s[i] = old THEN new ELSE s[i]]

slug_chars == Range(LowerCase) \cup Range(Digits)

\* re.sub(r'[^a-z0-9]+', '_', slug): every run of other characters
\* becomes one underscore
RECURSIVE sub_non_slug(_)
sub_non_slug(s) ==
    IF s = <<>> THEN <<>>
    ELSE LET front == SubSeq(s, 1, Len(s) - 1)
             c     == s[Len(s)]
         IN  IF c \in slug_chars THEN sub_non_slug(front) \o <<c>>
             ELSE IF front # <<>> /\ front[Len(front)] \notin slug_chars
                  THEN sub_non_slug(front)
                  ELSE sub_non_slug(front) \o <<"_">>

\* str.strip('_') and str.rstrip('_')
RECURSIVE rstrip_underscore(_)
rstrip_underscore(s) ==
    IF s # <<>> /\ s[Len(s)] = "_" THEN rstrip_underscore(SubSeq(s, 1, Len(s) - 1)) ELSE s

RECURSIVE lstrip_underscore(_)
lstrip_underscore(s) ==
    IF s # <<>> /\ Head(s) = "_" THEN lstrip_underscore(Tail(s)) ELSE s

\* re.sub(r'_+', '_', slug)
RECURSIVE collapse_underscores(_)
collapse_underscores(s) ==
    IF Len(s) < 2 THEN s
    ELSE IF s[1] = "_" /\ s[2] = "_" THEN collapse_underscores(Tail(s))
    ELSE <<s[1]>> \o collapse_underscores(Tail(s))

\* utils.slugify(text)
slugify(text) ==
    LET normal    == replace_char(replace_char(text, "'", "_"), "'", "_")
        lowered   == str_lower(normal)
        plain     == Flatten([i \in DOMAIN lowered |-> ACCENT_MAP(lowered[i])])
        slug      == collapse_underscores(
                         rstrip_underscore(lstrip_underscore(sub_non_slug(plain))))
    IN  IF Len(slug) > MAX_SLUG_LENGTH
        THEN rstrip_underscore(SubSeq(slug, 1, MAX_SLUG_LENGTH))
        ELSE slug

\* the names of directories and files, letter by letter
vocabulary  == <<"v","o","c","a","b","u","l","a","r","y">>
expressions == <<"e","x","p","r","e","s","s","i","o","n","s">>
quebecismes == <<"q","u","e","b","e","c","i","s","m","e","s">>
all_csv     == <<"a","l","l">>
mp3         == <<".","m","p","3">>
ex_suffix   == <<"_","e","x">>

\* deck_config: the sources of VOCABULARY_DECKS, AUTRES_DECK and
\* CONTENT_DECKS, in the order build_deck reads them; a source is the
\* directory and the stem of content/<parent>/<stem>.csv
DeckSources ==
    << [parent |-> vocabulary, stem |-> <<"a","1","_","a","2">>],
       [parent |-> vocabulary, stem |-> <<"b","1">>],
       [parent |-> vocabulary, stem |-> <<"b","2">>],
       [parent |-> vocabulary, stem |-> <<"c","1">>],
       [parent |-> vocabulary, stem |-> <<"a","u","t","r","e","s">>],
       [parent |-> expressions, stem |-> all_csv],
       [parent |-> quebecismes, stem |-> all_csv] >>

\* str.replace("_", "")
without_underscores(s) == SelectSeq(s, LAMBDA c : c # "_")

\* Mutant: the prefix is made of the directory alone.
get_audio_prefix_parent_only(source_file) ==
    SubSeq(source_file.parent, 1, 4) \o <<"_">>

\* get_audio_prefix(source_file)
get_audio_prefix(source_file) ==
    IF source_file.parent = vocabulary
    THEN <<"v","_">> \o without_underscores(source_file.stem) \o <<"_">>
    ELSE IF source_file.parent = expressions THEN <<"e","x","p","r","_">>
    ELSE IF source_file.parent = quebecismes THEN <<"q","c","_">>
    ELSE SubSeq(source_file.parent, 1, IF Len(source_file.parent) < 4
                                       THEN Len(source_file.parent) ELSE 4) \o <<"_">>

\* config.get_audio_dir(source_file): the directory under AUDIO_BASE_DIR
get_audio_dir(source_file) ==
    IF source_file.parent = vocabulary
    THEN vocabulary \o <<"_">> \o without_underscores(source_file.stem)
    ELSE source_file.parent

\* MediaCollector.__init__
new_collector == [files |-> [n \in {} |-> <<>>], conflicts |-> <<>>]

\* Mutant: a conflicting registration replaces the path of the name.
add_file_overwrite(collector, source_path, anki_name) ==
    IF anki_name \in DOMAIN collector.files /\ collector.files[anki_name] # source_path
    THEN [files |-> [n \in DOMAIN collector.files |->
                        IF n = anki_name THEN source_path ELSE collector.files[n]],
          conflicts |-> Append(collector.conflicts,
                               [anki_name |-> anki_name, source_path |-> source_path,
                                existing |-> collector.files[anki_name]]),
          returned |-> FALSE]
    ELSE [files |-> [n \in DOMAIN collector.files \cup {anki_name} |->
                        IF n = anki_name THEN source_path ELSE collector.files[n]],
          conflicts |-> collector.conflicts,
          returned |-> TRUE]

\* MediaCollector.add_file(source_path, anki_name): the collector after
\* the call and what the call returned; a conflict line is kept as its
\* three parts
add_file(collector, source_path, anki_name) ==
    IF anki_name \in DOMAIN collector.files /\ collector.files[anki_name] # source_path
    THEN [files |-> collector.files,
          conflicts |-> Append(collector.conflicts,
                               [anki_name |-> anki_name, source_path |-> source_path,
                                existing |-> collector.files[anki_name]]),
          returned |-> FALSE]
    ELSE [files |-> [n \in DOMAIN collector.files \cup {anki_name} |->
                        IF n = anki_name THEN source_path ELSE collector.files[n]],
          conflicts |-> collector.conflicts,
          returned |-> TRUE]

\* the calls of add_file a step has made, as the history keeps them
call_of(source_path, anki_name, returned) ==
    [source_path |-> source_path, anki_name |-> anki_name, returned |-> returned]

\* audio_dir / source_filename
source_path_of(french, audio_dir, suffix) == <<audio_dir, slugify(french) \o suffix \o mp3>>

\* get_audio_field(french, audio_dir, prefix, suffix, collector): the field,
\* the collector after it and the calls of add_file it made; collector is
\* <<>> for None
get_audio_field(french, audio_dir, prefix, suffix, collector, disk) ==
    LET slug          == slugify(french)
        source_path   == source_path_of(french, audio_dir, suffix)
        anki_filename == prefix \o slug \o suffix \o mp3
        added         == add_file(collector[1], source_path, anki_filename)
    IN  IF source_path \notin disk
        THEN [field |-> <<>>, collector |-> collector, made |-> <<>>]
        ELSE [field |-> <<"[sound:">> \o anki_filename \o <<"]">>,
              collector |-> IF collector # <<>>
                            THEN <<[files |-> added.files, conflicts |-> added.conflicts]>>
                            ELSE collector,
              made |-> IF collector # <<>>
                       THEN <<call_of(source_path, anki_filename, added.returned)>>
                       ELSE <<>>]

\* create_vocab_note(row, tag, audio_dir, audio_prefix, collector), the
\* audio fields of the note; audio_dir is <<>> for None
create_vocab_note(row, audio_dir, audio_prefix, collector, disk) ==
    LET audio == get_audio_field(row.french, audio_dir[1], audio_prefix, <<>>, collector, disk)
        audio_example ==
            get_audio_field(row.french, audio_dir[1], audio_prefix, ex_suffix,
                            audio.collector, disk)
    IN  IF audio_dir = <<>>
        THEN [note |-> [french |-> row.french, source |-> row.source,
                        audio |-> <<>>, audio_example |-> <<>>],
              collector |-> collector, made |-> <<>>]
        ELSE [note |-> [french |-> row.french, source |-> row.source,
                        audio |-> audio.field, audio_example |-> audio_example.field],
              collector |-> audio_example.collector,
              made |-> audio.made \o audio_example.made]

(* Inputs of the collector: any calls of add_file *)

MaxCalls == 3
SomePaths == {<<expressions, <<"a">> \o mp3>>, <<quebecismes, <<"a">> \o mp3>>,
              <<expressions, <<"e">> \o mp3>>}
SomeNames == {<<"a">> \o mp3, <<"e">> \o mp3}

InitMedia ==
    /\ script = "11_build_deck.MediaCollector"
    /\ media_files = new_collector.files
    /\ conflicts = new_collector.conflicts
    /\ calls = <<>>
    /\ include_audio = TRUE /\ pending = <<>> /\ on_disk = {} /\ deck_notes = <<>>

\* collector.add_file(source_path, anki_name)
AddFile ==
    /\ script = "11_build_deck.MediaCollector"
    /\ Len(calls) < MaxCalls
    /\ \E source_path \in SomePaths, anki_name \in SomeNames :
          LET added == add_file([files |-> media_files, conflicts |-> conflicts],
                                source_path, anki_name)
          IN  /\ media_files' = added.files
              /\ conflicts' = added.conflicts
              /\ calls' = Append(calls, call_of(source_path, anki_name, added.returned))
    /\ UNCHANGED <<script, include_audio, pending, on_disk, deck_notes,
                   adjVars, verbVars, formVars, selVars, rankVars, procVars, nounVars,
                   colVars, partVars, levelVars, tableVars>>

(* Inputs of build_deck: the rows of the content files and the audio files *)

MaxNotes == 2
FrenchTexts == {<<"é">>, <<"E">>, <<"l", "'", "a">>}

\* the place of a source in the order build_deck reads the files
source_index(source) == CHOOSE k \in DOMAIN DeckSources : DeckSources[k] = source

ContentRows == [french : FrenchTexts, source : Range(DeckSources)]

\* the audio file of the word of a row and the audio file of its example
word_audio(row) == source_path_of(row.french, get_audio_dir(row.source), <<>>)
example_audio(row) == source_path_of(row.french, get_audio_dir(row.source), ex_suffix)

InitDeck ==
    /\ script = "11_build_deck.build_deck"
    /\ include_audio \in BOOLEAN
    /\ pending \in {p \in UNION {[1..k -> ContentRows] : k \in 1..MaxNotes} :
                       \A i, j \in DOMAIN p :
                           i < j => source_index(p[i].source) <= source_index(p[j].source)}
    /\ on_disk \in {{}, {word_audio(pending[i]) : i \in DOMAIN pending},
                     {word_audio(pending[i]) : i \in DOMAIN pending}
                         \cup {example_audio(pending[i]) : i \in DOMAIN pending}}
    /\ media_files = new_collector.files
    /\ conflicts = new_collector.conflicts
    /\ calls = <<>>
    /\ deck_notes = <<>>

\* build_deck: deck.add_note(create_vocab_note(row, tag, audio_dir,
\* audio_prefix, collector)) for the next row
CreateVocabNote ==
    /\ script = "11_build_deck.build_deck"
    /\ pending # <<>>
    /\ LET row == Head(pending)
           collector == IF include_audio
                        THEN <<[files |-> media_files, conflicts |-> conflicts]>> ELSE <<>>
           audio_dir == IF include_audio THEN <<get_audio_dir(row.source)>> ELSE <<>>
           audio_prefix == IF include_audio THEN get_audio_prefix(row.source) ELSE <<>>
           made == create_vocab_note(row, audio_dir, audio_prefix, collector, on_disk)
       IN  /\ deck_notes' = Append(deck_notes, made.note)
           /\ media_files' = IF include_audio THEN made.collector[1].files ELSE media_files
           /\ conflicts' = IF include_audio THEN made.collector[1].conflicts ELSE conflicts
           /\ calls' = calls \o made.made
    /\ pending' = Tail(pending)
    /\ UNCHANGED <<script, include_audio, on_disk,
                   adjVars, verbVars, formVars, selVars, rankVars, procVars, nounVars,
                   colVars, partVars, levelVars, tableVars>>

-----------------------------------------------------------------------------
(* Specifications: one per part of the pipeline, and the repository as a whole *)

StartAdj   == InitAdj /\ IdleVerb /\ IdleForms /\ IdleSelect /\ IdleRank /\ IdleCards
StartVerb  == InitVerb /\ IdleAdj /\ IdleForms /\ IdleSelect /\ IdleRank /\ IdleCards
StartFormsELS == InitFormsELS /\ IdleAdj /\ IdleVerb /\ IdleSelect /\ IdleRank /\ IdleCards
StartForms01  == InitForms01 /\ IdleAdj /\ IdleVerb /\ IdleSelect /\ IdleRank /\ IdleCards
StartSelect   == InitSelect /\ IdleAdj /\ IdleVerb /\ IdleForms /\ IdleRank /\ IdleCards
StartRank     == InitRank /\ IdleAdj /\ IdleVerb /\ IdleForms /\ IdleSelect /\ IdleCards
StartCards    == InitCards /\ IdleAdj /\ IdleVerb /\ IdleForms /\ IdleSelect /\ IdleRank /\ IdleNoun /\ IdleStages
StartColumns  == InitColumns /\ IdleAdj /\ IdleVerb /\ IdleForms /\ IdleSelect /\ IdleRank /\ IdleProc /\ IdleNoun /\ IdleFiles /\ IdleLevels /\ IdleDeck
StartLevels   == InitLevels /\ IdleAdj /\ IdleVerb /\ IdleForms /\ IdleSelect /\ IdleRank /\ IdleProc /\ IdleNoun /\ IdleCols /\ IdleFiles /\ IdleDeck
StartPartition == InitPartition /\ IdleAdj /\ IdleVerb /\ IdleForms /\ IdleRank /\ IdleProc /\ IdleNoun /\ IdleCols /\ IdleLevels /\ IdleDeck
StartTable    == InitTable /\ IdleAdj /\ IdleForms /\ IdleSelect /\ IdleRank /\ IdleProc /\ IdleNoun /\ IdleCols /\ IdleFiles /\ IdleLevels /\ IdleMedia
StartMedia    == InitMedia /\ IdleAdj /\ IdleVerb /\ IdleForms /\ IdleSelect /\ IdleRank /\ IdleProc /\ IdleNoun /\ IdleCols /\ IdleFiles /\ IdleLevels /\ IdleTable
StartDeck     == InitDeck /\ IdleAdj /\ IdleVerb /\ IdleForms /\ IdleSelect /\ IdleRank /\ IdleProc /\ IdleNoun /\ IdleCols /\ IdleFiles /\ IdleLevels /\ IdleTable
StartNoun     == InitNoun /\ IdleAdj /\ IdleVerb /\ IdleForms /\ IdleSelect /\ IdleRank /\ IdleProc /\ IdleStages

SpecAdj   == StartAdj /\ [][ClassifyAdjective]_vars
SpecVerb  == StartVerb /\ [][ClassifyVerb]_vars
SpecFormsELS == StartFormsELS /\ [][AttachFormsELS]_vars
SpecForms01  == StartForms01 /\ [][AttachForms01]_vars
SpecSelect   == StartSelect /\ [][SelectCategories]_vars

NextRank == SortVocab \/ SortVocabAgain \/ SortCategory \/ SortCategoryAgain

SpecRank     == StartRank /\ [][NextRank]_vars
SpecCards    == StartCards /\ [][NextCards]_vars
SpecNoun     == StartNoun /\ [][FormatNoun]_vars
SpecColumns  == StartColumns /\ [][NextColumns]_vars
SpecPartition == StartPartition /\ [][SavePartitions]_vars
SpecLevels   == StartLevels /\ [][ReorganizeVocabulary]_vars
SpecTable    == StartTable /\ [][NextTable]_vars
SpecMedia    == StartMedia /\ [][AddFile]_vars
SpecDeck     == StartDeck /\ [][CreateVocabNote]_vars

Init == StartAdj \/ StartVerb \/ StartFormsELS \/ StartForms01 \/ StartSelect \/ StartRank
        \/ StartCards \/ StartNoun \/ StartColumns \/ StartPartition
        \/ StartLevels \/ StartTable \/ StartMedia \/ StartDeck

Next ==
    \/ ClassifyAdjective
    \/ ClassifyVerb
    \/ AttachFormsELS
    \/ AttachForms01
    \/ SelectCategories
    \/ NextRank
    \/ NextCards
    \/ FormatNoun
    \/ NextColumns
    \/ SavePartitions
    \/ ReorganizeVocabulary
    \/ NextTable
    \/ AddFile
    \/ CreateVocabNote

Spec == Init /\ [][Next]_vars

-----------------------------------------------------------------------------
(* Properties of the adjective classifier (SpecAdj) *)

AdjDone == adj_result # Pending

\* C1: whenever the feminine form is the masculine form plus 'e', the
\* adjective is classified 'regular' (with an empty pattern), never
\* 'patterned', 'doubled' or 'unique', whatever suffix the masculine has.
C1_RegularWins ==
    (AdjDone /\ ~isna(adj_m) /\ ~isna(adj_f) /\ adj_f = adj_m \o <<"e">>)
        => /\ adj_result = <<"regular", "">>
           /\ adj_result[1] \notin {"patterned", "doubled", "unique"}

\* C1 witness: a classified pair f = m + 'e' whose masculine ends in 'gu',
\* so that the rule -gu -> -gue of the table predicts the same feminine.
C1_Witness ==
    /\ AdjDone
    /\ EndsWith(adj_m, <<"g","u">>)
    /\ adj_f = adj_m \o <<"e">>

\* C2: a masculine s+'teur' with the feminine s+'trice' is classified
\* patterned with the label '-teur → -trice', never '-eur → -euse'.
C2_TeurTrice ==
    (AdjDone /\ EndsWith(adj_m, teur) /\ adj_f = DropLast(adj_m, Len(teur)) \o trice)
        => /\ adj_result = <<"patterned", "-teur → -trice">>
           /\ adj_result[2] # "-eur → -euse"

\* C2 witness: acteur / actrice has been classified.
C2_Witness ==
    /\ AdjDone
    /\ adj_m = <<"a","c">> \o teur
    /\ adj_f = <<"a","c">> \o trice

\* C3 as stated: beau / belle is classified 'unique'.
C3_BeauBelleUnique ==
    (AdjDone /\ adj_m = beau /\ adj_f = belle) => adj_result[1] = "unique"

\* C3 amended: beau / belle is classified patterned by the rule
\* '-eau → -elle' of the table; it is not 'regular', 'doubled' or 'unique'.
C3_BeauBellePatterned ==
    (AdjDone /\ adj_m = beau /\ adj_f = belle)
        => adj_result = <<"patterned", "-eau → -elle">>

\* C3 witness: beau / belle has been classified.
C3_Witness == AdjDone /\ adj_m = beau /\ adj_f = belle

-----------------------------------------------------------------------------
(* Properties of the verb-group classifier (SpecVerb) *)

VerbDone == verb_result # Pending

\* C4: a lemma ending in 'er' is group 1 exactly when it is not in the
\* exception set, and every lemma of the exception set is
\* (3, '-er exception') whatever its present participle.
C4_ErAndException ==
    VerbDone =>
        /\ EndsWith(verb_lemme, <<"e","r">>)
              => ((verb_result[1] = 1) <=> (verb_lemme \notin IRREGULAR_ER_VERBS))
        /\ verb_lemme \in IRREGULAR_ER_VERBS => verb_result = <<3, "-er exception">>

\* C4 witness: aller has been classified with a participle in -issant.
C4_Witness ==
    /\ VerbDone
    /\ verb_lemme = aller
    /\ ~isna(verb_pp) /\ EndsWith(verb_pp, issant)

-----------------------------------------------------------------------------
(* Properties of the form resolver (SpecFormsELS, SpecForms01) *)

Orthos == {rows[i].ortho : i \in DOMAIN rows}
CellsUsed == {key_of(rows[i]) : i \in DOMAIN rows}
TheForm == CHOOSE o \in Orthos : TRUE

\* C6: when a noun or adjective group shows exactly one distinct spelling
\* across all its (gender, number) cells, the display string is that
\* spelling, whichever cells the rows are recorded under.
C6_SingleFormDisplay ==
    (group_cgram = NOM /\ Cardinality(Orthos) = 1)
        => /\ forms_els # Pending => forms_els = TheForm
           /\ forms_01 # Pending => forms_01 = TheForm

\* the cells that no slot of extract_lexique_selection._format_forms reads
\* when they stand alone
UnreadCells == {<<g_f, empty>>, <<empty, n_p>>}

\* s starts with the str lem, and lem is followed by nothing, ', ' or ' ('
StartsWithPart(s, lem) ==
    /\ Len(s) >= Len(lem)
    /\ SubSeq(s, 1, Len(lem)) = lem
    /\ \/ Len(s) = Len(lem)
       \/ /\ Len(s) >= Len(lem) + 2
          /\ SubSeq(s, Len(lem) + 1, Len(lem) + 2) \in {comma, <<" ", "(">>}

\* C7: the display string attached to a lemma is never empty, and it falls
\* back to the lemma: it is the lemma when the key has no resolved forms
\* (no category) and when no slot of a noun or adjective group is resolved
\* (its rows lie in cells no slot reads, several spellings of one
\* numberless cell aside), and the infinitive shown for a verb without
\* infinitive row is the lemma.
C7_DisplayNeverEmpty ==
    forms_els # Pending =>
        /\ forms_els # empty
        /\ isna(group_cgram) => forms_els = group_lemme
        /\ (/\ group_cgram = NOM
            /\ CellsUsed \subseteq UnreadCells
            /\ ~(CellsUsed = {<<g_f, empty>>} /\ Cardinality(Orthos) > 1))
              => forms_els = group_lemme
        /\ (/\ group_cgram = VER
            /\ \A i \in DOMAIN rows : ~Contains(or_empty(rows[i].infover), t_inf))
              => StartsWithPart(forms_els, group_lemme)

\* C7 witness: a noun group whose only rows are feminine without number
\* and spell something else than the lemma has got the lemma as display.
C7_Witness ==
    /\ forms_els = group_lemme
    /\ group_cgram = NOM
    /\ CellsUsed = {<<g_f, empty>>}
    /\ group_lemme \notin Orthos

-----------------------------------------------------------------------------
(* Properties of the selection (SpecSelect) *)

lemma_rows == lemmas_of(df)

\* how many rows of seq are of category cat
count_of(seq, cat) == Len(SelectSeq(seq, LAMBDA r : r.cgram = cat))

kept(r) == \E j \in DOMAIN result : result[j] = r

\* C8: the selection holds at most TOP_N_PER_CATEGORY lemmas of every
\* filtered category, and it holds every lemma row whose category has a
\* value and is not filtered, whatever its frequency.
C8_TopNBoundAndOthersKept ==
    select_pc = "done" =>
        /\ \A cat \in FREQ_FILTERED_CATEGORIES :
              count_of(result, cat) <= TOP_N_PER_CATEGORY
        /\ \A i \in DOMAIN lemma_rows :
              (/\ ~isna(lemma_rows[i].cgram)
               /\ lemma_rows[i].cgram \notin FREQ_FILTERED_CATEGORIES)
                 => kept(lemma_rows[i])

\* C8 witness: the lexicon had more lemmas of one filtered category than
\* TOP_N_PER_CATEGORY, and a lemma of an unfiltered category with freqlem 0
\* is in the selection.
C8_Witness ==
    /\ select_pc = "done"
    /\ count_of(lemma_rows, NOM) > TOP_N_PER_CATEGORY
    /\ \E j \in DOMAIN result : result[j].cgram = PRE /\ result[j].freqlem = 0

\* the lemma rows of the category of r that are at least as frequent as r,
\* r aside
rivals(r) ==
    {j \in DOMAIN lemma_rows :
        /\ lemma_rows[j] # r
        /\ lemma_rows[j].cgram = r.cgram
        /\ lemma_rows[j].freqlem >= r.freqlem}

\* C9: the top-N filter is applied per category: a lemma of a filtered
\* category that has fewer than TOP_N_PER_CATEGORY lemmas of its own
\* category at or above its frequency is in the selection, whatever the
\* other filtered categories hold.
C9_TopNPerCategory ==
    select_pc = "done" =>
        \A i \in DOMAIN lemma_rows :
            (/\ isin(lemma_rows[i].cgram, FREQ_FILTERED_CATEGORIES)
             /\ Cardinality(rivals(lemma_rows[i])) < TOP_N_PER_CATEGORY)
               => kept(lemma_rows[i])

-----------------------------------------------------------------------------
(* Properties of the ranking (SpecRank) *)

\* entries of equal freqlem stand in the alphabetical order of their
\* display strings, case aside
TiesAlphabetical(seq) ==
    \A i \in 1..(Len(seq) - 1) :
        seq[i].freqlem = seq[i + 1].freqlem
            => ~str_less(lower(seq[i + 1].french), lower(seq[i].french))

\* C10: the ranked list is in descending freqlem, entries of equal freqlem
\* are in alphabetical order of the display string, and a second run that
\* receives the same entries in another order writes the same sequence of
\* records.
C10_RankingDeterministic ==
    rank_pc = "reranked" =>
        /\ Descending(ranked)
        /\ TiesAlphabetical(ranked)
        /\ reranked = ranked

-----------------------------------------------------------------------------
(* Properties of card assembly (SpecCards) *)

\* the lemma or word, as the file spells it, of the row a record was made from
origin_lemma(o) ==
    CASE o[1] = "entries" ->
            (IF script = "05_generate_cards.process_quebecismes"
             THEN entries[o[2]].word ELSE entries[o[2]].lemme)
      [] o[1] = "professions_f" -> professions_f[o[2]].lemme
      [] o[1] = "whitelist" -> whitelist[o[2]].lemme
      [] o[1] = "irregular_patterns" -> irregular[o[2]].lemme
      [] o[1] = "SAMPLE_1ER_GROUPE" -> SAMPLE_1ER_GROUPE[o[2]]
      [] o[1] = "SAMPLE_2E_GROUPE" -> SAMPLE_2E_GROUPE[o[2]]

\* the key under which the blacklist and seen hold it
\* the lemma a record carries, lower-cased: a row's lemma is stripped by its
\* processor, an item of a table is taken as the table holds it
origin_key(o) ==
    IF o[1] \in {"entries", "professions_f"} THEN str_lower(strip(origin_lemma(o)))
    ELSE str_lower(origin_lemma(o))

\* C11: no record of any category, the conjugation skeletons included, is
\* made from a lemma or word whose lower-cased spelling is in the blacklist.
C11_NoBlacklistedCard ==
    cards_pc = "done" =>
        \A k \in DOMAIN vocab : origin_key(origin[k]) \notin blacklist

\* the same for the processors of 05_generate_cards.py alone
BlacklistHonouredBy05 ==
    script # "05b_generate_conjugation" => C11_NoBlacklistedCard


\* the key under which a processor files a lexicon row
row_key(row) == str_lower(strip(row.lemme))

\* the rows of entries filed under a key, and the first of them
rows_of(key) == {j \in DOMAIN entries : row_key(entries[j]) = key}

first_row_of(key) == CHOOSE j \in rows_of(key) : \A j2 \in rows_of(key) : j <= j2

\* the records of the output whose lemma is a key up to case
records_of(key) == {k \in DOMAIN vocab : str_lower(vocab[k].french) = key}

ReturnedBy(name) == script = name /\ cards_pc = "done"

\* C12: in what process_numerals returns, every allow-listed numeral that is
\* not blacklisted has exactly one record; when no lexicon row carries it the
\* record has frequency 0 and source 'whitelist', and when a lexicon row
\* carries it the record has that row's frequency and source 'lexique'
C12_NumeralsExactlyOnce ==
    ReturnedBy("05_generate_cards.process_numerals") =>
        \A i \in DOMAIN whitelist :
            LET key == whitelist[i].lemme
            IN  key \notin blacklist =>
                  /\ Cardinality(records_of(key)) = 1
                  /\ \A k \in records_of(key) :
                        IF rows_of(key) = {}
                        THEN /\ vocab[k].freqlem = 0
                             /\ vocab[k].source = "whitelist"
                             /\ origin[k] = <<"whitelist", i>>
                        ELSE /\ vocab[k].freqlem =
                                    float_or_zero(entries[first_row_of(key)].freqlem).value
                             /\ vocab[k].source = "lexique"
                             /\ origin[k] = <<"entries", first_row_of(key)>>

\* one allow-listed numeral came from a lexicon row written in capitals and
\* with a frequency, another was synthesized
C12_Witness ==
    /\ ReturnedBy("05_generate_cards.process_numerals")
    /\ Len(whitelist) = 2 /\ Len(vocab) = 2
    /\ \E k \in DOMAIN vocab : vocab[k].source = "lexique" /\ vocab[k].freqlem = 5
                                 /\ vocab[k].french = <<"A">>
    /\ \E k \in DOMAIN vocab : vocab[k].source = "whitelist"
    /\ Len(entries) = 2


\* the allow-list holds the lemma of a record
allow_listed(entry) == dict_get(whitelist, str_lower(entry.french)) # <<>>

\* C13: whichever partition file the numerals were written to, ADJ_num.csv
\* read by process_numerals or other.csv read by process_other, a record of
\* category ADJ:num in the output is of a lemma on the allow-list
C13_NumeralsDefaultExcluded ==
    (ReturnedBy("05_generate_cards.process_numerals")
        \/ ReturnedBy("05_generate_cards.process_other")) =>
        \A k \in DOMAIN vocab : vocab[k].cgram = ADJ_num => allow_listed(vocab[k])

\* the same for the numerals of the partition ADJ_num.csv alone
NumeralsExcludedFromOwnPartition ==
    ReturnedBy("05_generate_cards.process_numerals") =>
        \A k \in DOMAIN vocab : allow_listed(vocab[k])


Processors05 ==
    {"05_generate_cards.process_nouns", "05_generate_cards.process_adjectives",
     "05_generate_cards.process_adverbs", "05_generate_cards.process_numerals",
     "05_generate_cards.process_other", "05_generate_cards.process_onomatopoeia",
     "05_generate_cards.process_verbs", "05_generate_cards.process_quebecismes"}

\* the rows of a list that come before row j and have the key of origin o
earlier_same_key(o, name, j) ==
    {j2 \in 1..(j - 1) : origin_key(<<name, j2>>) = origin_key(o)}

\* C14: in what a category processor returns, no two records come from
\* lemmas equal up to case, a record made of a lexicon row is made of the first
\* row with its key, and a record made of a profession addition (or of an
\* allow-list item) has a key that no lexicon row has and is made of the first
\* addition with that key
C14_FirstOccurrenceKept ==
    (script \in Processors05 /\ cards_pc = "done") =>
        /\ \A k1, k2 \in DOMAIN vocab :
              k1 # k2 => origin_key(origin[k1]) # origin_key(origin[k2])
        /\ \A k \in DOMAIN vocab :
              /\ earlier_same_key(origin[k], origin[k][1], origin[k][2]) = {}
              /\ origin[k][1] # "entries" =>
                    /\ earlier_same_key(origin[k], "entries", Len(entries) + 1) = {}
                    /\ vocab[k].source \in {"additions", "whitelist"}
              /\ origin[k][1] = "entries" =>
                    /\ script = "05_generate_cards.process_verbs" =>
                          vocab[k].verb = strip(origin_lemma(origin[k]))
                    /\ script # "05_generate_cards.process_verbs" =>
                          vocab[k].source \in {"lexique", "quebecismes"}
                    /\ script \in {"05_generate_cards.process_adverbs",
                                   "05_generate_cards.process_other",
                                   "05_generate_cards.process_numerals",
                                   "05_generate_cards.process_onomatopoeia"} =>
                          vocab[k].french = strip(origin_lemma(origin[k]))

\* two lexicon rows and a profession addition of one key, spelt differently:
\* one record, made of the first row
C14_Witness ==
    /\ ReturnedBy("05_generate_cards.process_nouns")
    /\ Len(entries) = 2 /\ Len(professions_f) = 1 /\ Len(vocab) = 1
    /\ entries[1].lemme # entries[2].lemme
    /\ row_key(entries[1]) = row_key(entries[2])
    /\ row_key(professions_f[1]) = row_key(entries[1])
    /\ origin[1] = <<"entries", 1>>


-----------------------------------------------------------------------------
(* Properties of format_noun (SpecNoun) *)

NounDone == script = "05_generate_cards.format_noun" /\ noun_result # <<"<pending>">>

\* the letters before which the article is elided, in lower case
VowelOrH ==
    {"a", "e", "i", "o", "u", "h", "é", "è", "ê", "ë", "à", "â", "ä", "ù", "û", "ü",
     "î", "ï", "ô", "<oe>", "æ"}

\* the lemma, stripped of the blanks around it, begins with a vowel or 'h'
\* in either case
begins_with_vowel_or_h(lemme) ==
    strip(lemme) # <<>> /\ lower_letter(strip(lemme)[1]) \in VowelOrH

\* C15: for gender 'm' or 'f' format_noun returns 'le X' / 'la X' exactly
\* when the lemma X does not begin with a vowel or 'h' in either case; when it
\* does, it returns "l'X" followed by ' (m)' / ' (f)'; for a gender that is not
\* 'm', 'f' or 'm/f' it returns the bare lemma
C15_ArticleOrElision ==
    NounDone =>
        LET X == strip(noun_lemme)
            marker == <<" ", "(">> \o noun_genre \o <<")">>
            article == IF noun_genre = g_m THEN <<"l","e"," ">> ELSE <<"l","a"," ">>
        IN  /\ noun_genre \in {g_m, g_f} =>
                /\ noun_result = article \o X <=> ~begins_with_vowel_or_h(noun_lemme)
                /\ begins_with_vowel_or_h(noun_lemme) =>
                      noun_result = <<"l","'">> \o X \o marker
            /\ noun_genre \notin {g_m, g_f, wt_mf} => noun_result = X

\* a feminine noun written with a capital H took the elided article
C15_Witness ==
    /\ NounDone
    /\ noun_genre = g_f
    /\ noun_lemme = <<"H", "a">>
    /\ noun_result = <<"l", "'", "H", "a", " ", "(", "f", ")">>


-----------------------------------------------------------------------------
(* Properties of the frequency field (SpecCards) *)

\* the frequency fields float() does not parse
malformed_rows == {j \in DOMAIN entries : float_or_zero(entries[j].freqlem).raised}

\* C16: a frequency field that is no number does not abort the processor (or
\* the loader of 05b_generate_conjugation) that reads it
C16_MalformedFrequencyNeverAborts == cards_pc # "ValueError"

\* a run is aborted only by a frequency field that is neither empty nor a number
AbortedOnlyByMalformedFrequency ==
    cards_pc = "ValueError" =>
        /\ script # "05_generate_cards.process_quebecismes"
        /\ malformed_rows # {}


-----------------------------------------------------------------------------
(* Properties of the entry points (SpecColumns) *)

ColumnsMissing == Range(REQUIRED_LEXIQUE_COLUMNS) \ columns # {}

MainReturned == col_pc \notin {"start", "idle"}

\* C17: when the lexicon lacks a required column, the entry point reports it
\* and runs neither the form collection, nor the filtering, nor the writing of
\* the partition files
C17_ValidationStopsEntryPoint ==
    (MainReturned /\ ColumnsMissing) =>
        /\ progress = <<"report">>
        /\ col_pc = "return 1"

\* the same of 01_extract_categories.main alone
ValidationStops01 ==
    script = "01_extract_categories.main" => C17_ValidationStopsEntryPoint

\* no partition file is written from a lexicon that lacks a required column
NoPartitionWithoutColumns ==
    (MainReturned /\ ColumnsMissing) => "write" \notin Range(progress)


-----------------------------------------------------------------------------
(* Properties of the partition (SpecPartition) *)

Saved == script = "01_extract_categories.partition" /\ select_pc = "saved"

\* the places of the written files that hold a row
places_of(row) ==
    {pl \in UNION {{n} \X DOMAIN files[n] : n \in DOMAIN files} : files[pl[1]][pl[2]] = row}

RECURSIVE total_saved(_)
total_saved(names) ==
    IF names = {} THEN 0
    ELSE LET n == CHOOSE x \in names : TRUE
         IN  Len(files[n]) + total_saved(names \ {n})


rows_in(seq) == {seq[k] : k \in DOMAIN seq}

\* C18: every selected lemma row is written to exactly one place of one
\* partition file; a category of at least MIN_CATEGORY_SIZE selected rows has
\* a file of its own that holds its rows and no other row, the rows of every
\* smaller category are in other.csv and nowhere else, and the lengths of the
\* files sum to the number of selected rows
C18_PartitionExact ==
    Saved =>
        /\ \A i \in DOMAIN result : Cardinality(places_of(result[i])) = 1
        /\ \A cat \in categories_of(result) :
              LET mine == {result[i] : i \in {j \in DOMAIN result : result[j].cgram = cat}}
              IN  IF category_count(result, cat) >= MIN_CATEGORY_SIZE
                  THEN /\ file_name(cat) \in DOMAIN files
                       /\ rows_in(files[file_name(cat)]) = mine
                       /\ mine \cap rows_in(files["other.csv"]) = {}
                  ELSE /\ file_name(cat) \notin DOMAIN files
                       /\ mine \subseteq rows_in(files["other.csv"])
        /\ total_saved(DOMAIN files) = Len(result)

\* a category of exactly MIN_CATEGORY_SIZE rows got its file, and two smaller
\* ones went to other.csv
C18_Witness ==
    /\ Saved
    /\ \E cat \in categories_of(result) :
          /\ category_count(result, cat) = MIN_CATEGORY_SIZE
          /\ Len(files[file_name(cat)]) = MIN_CATEGORY_SIZE
    /\ Cardinality(small_categories(result)) = 2
    /\ Len(files["other.csv"]) = 2
    /\ Len(result) = 4


-----------------------------------------------------------------------------
(* Properties of the level split (SpecLevels) *)

LevelsDone == script = "10_reorganize_vocabulary" /\ level_pc = "done"

\* the major words of the batches, the highest-ranked first
major_words ==
    french_of(split_by_category(merge_with_skeleton(batches, skeleton)).major)

\* the words of seq from place a + 1 to place b, as far as seq goes
slice(seq, a, b) ==
    SubSeq(seq, a + 1, IF b < Len(seq) THEN b ELSE Len(seq))

\* C19: the level boundaries count major words only: when there are at least
\* as many major words as a1_a2 takes, a1_a2 holds the highest-ranked major
\* words up to its boundary, b1 the major words from there to its boundary,
\* b2 likewise, and c1 the rest
C19_LevelsCountMajorWords ==
    (LevelsDone /\ Len(major_words) >= LEVELS[1].end[1]) =>
        \A i \in DOMAIN LEVELS :
            level_files[LEVELS[i].name] =
                slice(major_words, LEVELS[i].start,
                      IF LEVELS[i].end = <<>> THEN Len(major_words) ELSE LEVELS[i].end[1])

\* what the code does: a level holds the major words whose place among all
\* the words of the skeleton is within its boundaries
LevelsBySkeletonRank ==
    LevelsDone =>
        \A i \in DOMAIN LEVELS : \A w \in Range(level_files[LEVELS[i].name]) :
            \E r \in DOMAIN skeleton :
                /\ skeleton[r].French = w
                /\ skeleton[r].WordType \in MAJOR_TYPES
                /\ r - 1 >= LEVELS[i].start
                /\ LEVELS[i].end # <<>> => r - 1 < LEVELS[i].end[1]


-----------------------------------------------------------------------------
(* Properties of the order of the suffix rules (SpecAdj) *)

\* the rules of a table whose masculine suffix ends m, by their place in it
rules_ending(table, m) == {i \in DOMAIN table : EndsWith(m, table[i].m)}

\* in a table, a rule whose masculine suffix is a proper suffix of that of
\* another rule comes after it
most_specific_first(table) ==
    \A i, j \in DOMAIN table :
        (Len(table[i].m) < Len(table[j].m) /\ EndsWith(table[j].m, table[i].m)) => j < i

\* C20: the rules detect_pattern tries for a masculine form are tried from
\* the longest masculine suffix to the shortest: of two rules of PATTERNS
\* whose suffixes end the form, the one with the longer suffix comes earlier
C20_MostSpecificFirst ==
    (AdjDone /\ ~isna(adj_m) /\ ~isna(adj_f)) =>
        \A i, j \in rules_ending(PATTERNS, adj_m) :
            Len(PATTERNS[i].m) < Len(PATTERNS[j].m) => j < i

\* the pair of rules of PATTERNS that is out of this order is -eur, -teur alone
OnlyEurBeforeTeur ==
    \A i, j \in DOMAIN PATTERNS :
        (Len(PATTERNS[i].m) < Len(PATTERNS[j].m) /\ EndsWith(PATTERNS[j].m, PATTERNS[i].m)
            /\ i < j)
        => PATTERNS[i].m = <<"e","u","r">> /\ PATTERNS[j].m = teur

\* the table of 04b_check_professions is in the order
ProfessionPatternsMostSpecificFirst == most_specific_first(PROFESSION_PATTERNS)


-----------------------------------------------------------------------------
(* Properties of the -oir verbs (SpecVerb) *)

\* C21: a lemma ending in 'oir' outside the exception set is (3, '-oir')
\* whatever its present participle
C21_OirIsGroup3Oir ==
    (VerbDone /\ EndsWith(verb_lemme, <<"o","i","r">>) /\ verb_lemme \notin IRREGULAR_ER_VERBS)
        => verb_result = <<3, "-oir">>

\* what the code does with such a lemma: it ends in 'ir' as well, and the
\* test of 'ir' comes first
OirTakenAsIr ==
    (VerbDone /\ EndsWith(verb_lemme, <<"o","i","r">>) /\ verb_lemme \notin IRREGULAR_ER_VERBS)
        => IF ~isna(verb_pp) /\ EndsWith(verb_pp, issant)
           THEN verb_result = <<2, "regular -ir (-issant)">>
           ELSE verb_result = <<3, "-ir sans -issant">>


-----------------------------------------------------------------------------
(* Properties of the slots of the form resolver (SpecFormsELS) *)

WordGroupDone == forms_els # Pending /\ group_cgram = NOM

\* forms_by_gn_sets of the group at hand
GroupCells == get_word_forms_sets(rows)

\* the first cell of a precedence order that holds a form
FirstNonEmpty(fbg, order) ==
    IF \E i \in DOMAIN order : fbg[order[i]] # {}
    THEN order[CHOOSE i \in DOMAIN order :
                  /\ fbg[order[i]] # {}
                  /\ \A j \in 1..(i - 1) : fbg[order[j]] = {}]
    ELSE NoCell

Separators == {"/", ",", " ", "("}

HasParts(s) == \E i \in DOMAIN s : s[i] \in Separators

\* the first form of a display string, the last one
FirstPart(s) ==
    IF HasParts(s)
    THEN SubSeq(s, 1, (CHOOSE i \in DOMAIN s :
                          s[i] \in Separators /\ \A j \in 1..(i - 1) : s[j] \notin Separators) - 1)
    ELSE s

LastPart(s) ==
    IF HasParts(s)
    THEN SubSeq(s, (CHOOSE i \in DOMAIN s :
                       s[i] \in Separators /\ \A j \in (i + 1)..Len(s) : s[j] \notin Separators) + 1,
                Len(s))
    ELSE s

\* the forms a display string shows
RECURSIVE PartsOf(_)
PartsOf(s) ==
    IF s = <<>> THEN {}
    ELSE IF HasParts(s)
    THEN {FirstPart(s)} \cup PartsOf(SubSeq(s, Len(FirstPart(s)) + 2, Len(s)))
    ELSE {s}

MasculineSingularOrder ==
    << <<g_m, n_s>>, <<empty, n_s>>, <<g_m, empty>>, <<empty, empty>> >>

\* C22: the masculine singular form comes from the first non-empty cell in
\* the order (m, s), ('', s), (m, ''), ('', ''), whatever the other cells
\* hold: the slot reads that cell, and a display string of several forms
\* begins with a form of that cell.
C22_MasculineSingularPrecedence ==
    WordGroupDone =>
        LET cell == FirstNonEmpty(GroupCells, MasculineSingularOrder)
        IN  /\ ms_slot_els(GroupCells) = cell
            /\ (cell # NoCell /\ HasParts(forms_els))
                  => FirstPart(forms_els) \in GroupCells[cell]

\* C22 witness: a group with singular rows without gender and masculine
\* rows without number, of different spellings, shows the former first.
C22_Witness ==
    /\ WordGroupDone
    /\ CellsUsed = {<<empty, n_s>>, <<g_m, empty>>}
    /\ HasParts(forms_els)
    /\ FirstPart(forms_els) \in GroupCells[<<empty, n_s>>]
    /\ FirstPart(forms_els) \notin GroupCells[<<g_m, empty>>]

\* C23: a group without (f, s) rows and with (f, '') rows has the form of
\* its (f, '') rows in the feminine singular slot, and shows it.
C23_FeminineWithoutNumber ==
    (/\ WordGroupDone
     /\ <<g_f, n_s>> \notin CellsUsed
     /\ <<g_f, empty>> \in CellsUsed)
        => /\ fs_slot_els(GroupCells) = <<g_f, empty>>
           /\ PartsOf(forms_els) \cap GroupCells[<<g_f, empty>>] # {}

\* what the code does: the feminine singular slot reads the (f, s) rows
\* and nothing else
FeminineSingularFromFsOnly ==
    WordGroupDone =>
        fs_slot_els(GroupCells) = (IF <<g_f, n_s>> \in CellsUsed THEN <<g_f, n_s>> ELSE NoCell)

\* C24: without (m, p) rows the masculine plural slot reads the ('', p)
\* rows if there are any and only otherwise the (m, '') rows; a group with
\* ('', p) rows alone shows their form.
C24_MasculinePluralFallback ==
    (WordGroupDone /\ <<g_m, n_p>> \notin CellsUsed) =>
        /\ <<empty, n_p>> \in CellsUsed => mp_slot_els(GroupCells) = <<empty, n_p>>
        /\ (<<empty, n_p>> \notin CellsUsed /\ <<g_m, empty>> \in CellsUsed)
              => mp_slot_els(GroupCells) = <<g_m, empty>>
        /\ CellsUsed = {<<empty, n_p>>} => forms_els \in GroupCells[<<empty, n_p>>]

\* what the code does: the (m, '') rows come before the ('', p) rows, and
\* the ('', p) rows are read only beside a masculine singular form
MasculinePluralAsCoded ==
    (WordGroupDone /\ <<g_m, n_p>> \notin CellsUsed) =>
        /\ <<g_m, empty>> \in CellsUsed => mp_slot_els(GroupCells) = <<g_m, empty>>
        /\ CellsUsed = {<<empty, n_p>>} => forms_els = group_lemme

\* the greatest frequency kept for a spelling of a cell
max_freq_of(key) ==
    CHOOSE f \in {ortho_freq(rows, key, o) : o \in Range(ortho_order(rows, key))} :
        \A o \in Range(ortho_order(rows, key)) : f >= ortho_freq(rows, key, o)

\* C25: the spelling that stands for a cell of several spellings is one of
\* greatest form-level frequency in the cell; length and final 's' only
\* break exact ties.
C25_MostFrequentSpelling ==
    WordGroupDone =>
        \A key \in CellsUsed :
            (key[2] # empty /\ Len(ortho_order(rows, key)) > 1)
                => \A o \in cell_set_els(rows, key) :
                      ortho_freq(rows, key, o) = max_freq_of(key)

\* what the code does: the spelling chosen is within a tenth of the
\* greatest frequency
WithinTenthOfMostFrequent ==
    WordGroupDone =>
        \A key \in CellsUsed :
            key[2] # empty
                => \A o \in cell_set_els(rows, key) :
                      10 * ortho_freq(rows, key, o) >= 9 * max_freq_of(key)


-----------------------------------------------------------------------------
(* Properties of the verb forms (SpecFormsELS) *)

VerbGroupDone == forms_els # Pending /\ group_cgram = VER

\* the rows tagged infinitive, in the order of the group
InfRows == SelectSeq(rows, LAMBDA r : Contains(or_empty(r.infover), t_inf))

\* C26 as stated: the infinitive shown is always the lemma, a row tagged
\* infinitive and spelt otherwise is never shown.
C26_InfinitiveIsLemma ==
    VerbGroupDone => FirstPart(forms_els) = group_lemme

\* C26: the infinitive shown is the lemma when a row tagged infinitive
\* spells the lemma, whatever the order of the rows, and when no row is
\* tagged infinitive; when rows are tagged infinitive and none spells the
\* lemma, it is the spelling of the first of them.
C26_InfinitivePrefersLemma ==
    VerbGroupDone =>
        IF InfRows = <<>> \/ \E i \in DOMAIN InfRows : InfRows[i].ortho = group_lemme
        THEN FirstPart(forms_els) = group_lemme
        ELSE FirstPart(forms_els) = InfRows[1].ortho

\* C26 witness: the row that spells the lemma came after an infinitive row
\* spelt otherwise, and the lemma is shown.
C26_Witness ==
    /\ VerbGroupDone
    /\ Len(InfRows) = 2
    /\ InfRows[1].ortho # group_lemme
    /\ InfRows[2].ortho = group_lemme
    /\ FirstPart(forms_els) = group_lemme

\* the orderings of a sequence of rows
Reorders(rs) ==
    {[i \in DOMAIN rs |-> rs[p[i]]] : p \in Perms(DOMAIN rs)}

\* C27: the display string of a group depends on the set of its rows only:
\* every ordering of the rows and every iteration order of the sets of
\* forms gives the display string that was attached.
C27_PureFunctionOfRowSet ==
    forms_els # Pending =>
        \A rs \in Reorders(rows) :
            attach_forms_els(group_lemme, group_cgram, rs) = {forms_els}

\* the same for the groups of one row: one ordering, sets of one form
OneRowGroupsArePure ==
    (forms_els # Pending /\ Len(rows) = 1) =>
        attach_forms_els(group_lemme, group_cgram, rows) = {forms_els}


-----------------------------------------------------------------------------
(* Properties of the two verb classifiers (SpecTable) *)

TableDone == table_pc = "done"

\* the number of the group a card names
group_number(group) ==
    CASE group = "1er groupe" -> 1
      [] group = "2e groupe" -> 2
      [] group = "3e groupe" -> 3

\* C28: the group card assembly assigns to a verb, given the table 04d
\* wrote, is the group get_verb_group assigns to it, whatever its frequency.
C28_ClassifiersAgree ==
    TableDone => group_number(card_group[1]) = verb_result[1]

\* the two agree on the verbs the table holds and on every verb that does
\* not end in 'ir'
AgreeOutsideUnlistedIr ==
    (TableDone /\ (irregular_csv # <<>> \/ ~EndsWith(verb_lemme, <<"i","r">>)))
        => group_number(card_group[1]) = verb_result[1]

\* a verb in 'ir' that the table does not hold is of group 2 on its card
UnlistedIrIsGroup2 ==
    (TableDone /\ irregular_csv = <<>> /\ EndsWith(verb_lemme, <<"i","r">>))
        => card_group[1] = "2e groupe"


-----------------------------------------------------------------------------
(* Properties of the media collector (SpecMedia) and of the audio fields
   (SpecDeck) *)

\* the first call of add_file with a name
first_call(name) ==
    CHOOSE i \in DOMAIN calls :
        /\ calls[i].anki_name = name
        /\ \A j \in 1..(i - 1) : calls[j].anki_name # name

first_path(name) == calls[first_call(name)].source_path

\* the calls that met a name registered to another path
FailedCalls == SelectSeq(calls, LAMBDA c : ~c.returned)

\* C29: after any calls of add_file, every name maps to the path of its
\* first registration; a call returns False exactly when its name was
\* registered before to another path, and each such call leaves the
\* mapping as it was and records one conflict; registering a name again
\* with its path returns True and records nothing.
C29_FirstRegistrationKept ==
    /\ DOMAIN media_files = {calls[i].anki_name : i \in DOMAIN calls}
    /\ \A name \in DOMAIN media_files : media_files[name] = first_path(name)
    /\ \A i \in DOMAIN calls :
          calls[i].returned
              = ~(/\ first_call(calls[i].anki_name) < i
                  /\ first_path(calls[i].anki_name) # calls[i].source_path)
    /\ conflicts = [k \in DOMAIN FailedCalls |->
                       [anki_name |-> FailedCalls[k].anki_name,
                        source_path |-> FailedCalls[k].source_path,
                        existing |-> first_path(FailedCalls[k].anki_name)]]

\* the path of a registered name never changes
MappingNeverChanges ==
    [][\A name \in DOMAIN media_files :
          name \in DOMAIN media_files' /\ media_files'[name] = media_files[name]]_vars

\* C29 witness: a name was registered, then registered to another path,
\* which was refused, then registered again with its first path.
C29_Witness ==
    /\ script = "11_build_deck.MediaCollector"
    /\ Len(calls) = 3
    /\ calls[1].returned /\ ~calls[2].returned /\ calls[3].returned
    /\ calls[2].anki_name = calls[1].anki_name
    /\ calls[2].source_path # calls[1].source_path
    /\ calls[3] = calls[1]
    /\ Len(conflicts) = 1
    /\ media_files[calls[1].anki_name] = calls[1].source_path

\* NAME of the field '[sound:NAME]'
sound_name(field) == SubSeq(field, 2, Len(field) - 1)

\* the field names a file the collector maps to path
NamesFileOf(field, path) ==
    field # <<>> =>
        /\ field = <<"[sound:">> \o sound_name(field) \o <<"]">>
        /\ sound_name(field) \in DOMAIN media_files
        /\ media_files[sound_name(field)] = path

\* C30: every sound reference of a note names a file that the collector
\* maps to the audio file of that note, never a name the collector holds
\* for another path.
C30_SoundNamesOwnFile ==
    \A i \in DOMAIN deck_notes :
        /\ NamesFileOf(deck_notes[i].audio, word_audio(deck_notes[i]))
        /\ NamesFileOf(deck_notes[i].audio_example, example_audio(deck_notes[i]))

\* build_deck meets no conflict
NoConflictInBuildDeck ==
    script = "11_build_deck.build_deck" => conflicts = <<>>

\* C30 witness: two notes of different files have the same slug, each has
\* its two sound references, and the collector holds four files.
C30_Witness ==
    /\ Len(deck_notes) = 2
    /\ deck_notes[1].source # deck_notes[2].source
    /\ slugify(deck_notes[1].french) = slugify(deck_notes[2].french)
    /\ \A i \in {1, 2} : deck_notes[i].audio # <<>> /\ deck_notes[i].audio_example # <<>>
    /\ Cardinality(DOMAIN media_files) = 4

=============================================================================
